---- MODULE Spec2Model ----
(***************************************************************************)
(* Reverse-proxy load balancer: hot-reload orchestrator (App,              *)
(* ConfigManager, Proxy), the backend registry with its selection          *)
(* strategies (RoundRobin, WeightedRoundRobin, LeastConn) and the          *)
(* per-client admission controller (TokenBucket).                          *)
(***************************************************************************)
EXTENDS Integers, Sequences, FiniteSets, TLC

(***************************************************************************)
(* Bounds of the model.                                                    *)
(***************************************************************************)
\* requests that one proxy instance serves at the same time
MaxInFlight == 2
\* largest burst of a default or an override
MaxBurst == 2
\* ticks of the clock a run of the token bucket lasts
MaxTime == 2
\* tokens Reserve may hand out ahead of their time
MaxDebt == 1
\* administrative and Allow calls one goroutine makes in a concurrent run
MaxOps == 1

(***************************************************************************)
(* Program constants.                                                      *)
(***************************************************************************)
\* context.WithTimeout(context.Background(), 30*time.Second) in Proxy.Stop
StopTimeout == 30

(***************************************************************************)
(* Values.                                                                 *)
(***************************************************************************)
\* the selection methods loadbalancer.New and Config.validate accept
Methods == {"RoundRobin", "WeightedRoundRobin", "LeastConnections"}

\* contents of the configuration file: the fields validate and New read
\* (the selection method and the ids of c.Backends); two pass validate, one
\* names an unsupported method and one has no backends
FileContents ==
    { [method |-> "RoundRobin",       backends |-> <<"b1">>],
      [method |-> "LeastConnections", backends |-> <<"b1", "b2">>],
      [method |-> "Random",           backends |-> <<"b1">>],
      [method |-> "RoundRobin",       backends |-> <<>>] }

\* the two Proxy instances alive during a swap: a.proxy and newProxy
ProxyIds == {1, 2}
NoProxy == 0
NoConfig == [method |-> "", backends |-> <<>>]

Range(s) == {s[i] : i \in DOMAIN s}

\* client identities (userID)
Users == {"u1"}
\* goroutines that call the TokenBucket at the same time
Threads == {1, 2}
\* values of UserLimits.Rate (tokens per second) and of UserLimits.Burst that
\* pass "rate > 0, burst > 0"
Rates == {1, 2}
Bursts == 1..MaxBurst
\* no entry under the key in tb.userLimits / in tb.limiters
NoLimits == [Rate |-> 0, Burst |-> 0]
NoLimiter == [limit |-> 0, burst |-> 0, tokens |-> 0, last |-> 0]
NoRef == 0
\* *rate.Limiter objects alive at once: one per map entry and one per goroutine
Slots == 1..(Cardinality(Users) + Cardinality(Threads))

VARIABLES
    \* ConfigManager
    config,       \* m.config
    lastError,    \* m.lastError # nil
    subCh,        \* the subscriber channel of App (capacity 1)
    \* App
    pc,           \* position of the watchConfig goroutine inside reconfigure
    cfgIn,        \* the cfg argument of the running reconfigure
    proxy,        \* a.proxy
    newP,         \* newProxy of the running reconfigure
    oldListening, \* a.proxy was listening when the last reconfigure began
    lastReconf,   \* "none", "first" or "hot": branch the last reconfigure took
    \* Proxy instances
    srv,          \* state of p.server
    pcfg,         \* configuration the instance was built from
    reg,          \* ids in the registry of the instance's load balancer
    inflight,     \* requests being served by the instance
    aborted,      \* requests cut off by server.Close()
    drainClock,   \* seconds since Shutdown(ctx) began
    \* one selection strategy (BaseLoadBalancer plus the strategy's fields)
    impl,         \* the strategy type that embeds the BaseLoadBalancer
    backends,     \* b.backends: id -> BackendState
    current,      \* r.current / w.current
    last,         \* the last call on the strategy and what it returned
    picks,        \* results of the Invoke calls since the registry last changed
    hits,         \* per backend, the Invoke calls that returned it
    \* TokenBucket
    defaultRate,  \* tb.defaultRate
    defaultBurst, \* tb.defaultBurst
    userLimits,   \* tb.userLimits: userID -> UserLimits
    limiters,     \* tb.limiters: userID -> *rate.Limiter (a slot of heap)
    heap,         \* the rate.Limiter objects: limit, burst, tokens, last
    now,          \* time.Now(), in ticks
    mu,           \* tb.mu: the goroutine that holds the lock, or 0
    tbLast,       \* the last completed call on the TokenBucket and its result
    calls,        \* per client, the calls served by its current limiter
    ref,          \* per client, the bucket of the run without overrides
    tpc,          \* per goroutine, its position inside its call
    tcall,        \* per goroutine, the call it is in and its arguments
    tlim,         \* per goroutine, the local variable limiter
    tlimits,      \* per goroutine, the local variable limits
    tdone,        \* per goroutine, the calls it has completed
    granted,      \* Allow calls that returned true; pure: no other call was made
    \* goroutines that call IncActiveConnections / DecActiveConnections
    connPc,       \* per goroutine, its position inside its call
    connCall,     \* per goroutine, the call it is in and its id argument
    connState,    \* per goroutine, the local variable state
    completed,    \* per backend, the calls that have returned: inc and dec
    \* Proxy.handleRequest
    rq,           \* the requests that wait for client.Do inside Backend.Handle
    bstats,       \* per backend, BaseBackend.stats.ActiveConnections
    resp,         \* the last response a handler of the Proxy wrote
    served,       \* proxied requests whose handler has started
    \* one selection strategy called by several goroutines
    states,       \* the BackendState objects ever made, by address
    ptrs,         \* b.backends: id -> address of a BackendState
    weightMutex,  \* w.weightMutex: the writer that holds it, and its readers
    lpc,          \* per goroutine, its position inside its call
    lloc,         \* per goroutine, its call and its local variables
    \* one BaseBackend: the counters behind its LoadStats
    requestCount, \* b.requestCount
    successCount, \* b.successCount
    SuccessRate,  \* b.stats.SuccessRate, as numerator and denominator
    statsPc,      \* position of the updateStats goroutine inside its tick
    totalRequests,\* the local variable totalRequests of updateStats
    hpc,          \* per goroutine in Handle, its position in updateRequestStats
    \* ConfigManager with any number of subscribers
    subscribers,  \* m.subscribers: the channels, with what was read from them
    \* App.Run
    runPc,        \* position of App.Run
    subClosed,    \* the subscription channel of App has been closed
    \* one WorkerPool
    queueClosed,  \* wp.taskQueue has been closed
    wg,           \* the counter of wp.wg
    taskPc,       \* per submitted task, the position of its Submit goroutine
    workerTask,   \* per worker, the task it runs, or 0
    execs,        \* per task, how often it has finished executing
    waitPc        \* position of the Wait call

appVars == <<config, lastError, subCh, pc, cfgIn, proxy, newP, oldListening,
             lastReconf, srv, pcfg, reg, inflight, aborted, drainClock>>

lbVars == <<impl, backends, current, last, picks, hits>>

tbVars == <<defaultRate, defaultBurst, userLimits, limiters, heap, now, mu,
            tbLast, calls, ref, tpc, tcall, tlim, tlimits, tdone, granted>>

pxVars == <<connPc, connCall, connState, completed, rq, bstats, resp, served>>

lbcVars == <<states, ptrs, weightMutex, lpc, lloc>>

bkVars == <<requestCount, successCount, SuccessRate, statsPc, totalRequests,
            hpc>>

subVars == <<subscribers>>

runVars == <<runPc, subClosed>>

wpVars == <<queueClosed, wg, taskPc, workerTask, execs, waitPc>>

\* the components modelled on their own
moreVars == <<lbcVars, bkVars, subVars, runVars, wpVars>>

vars == <<appVars, lbVars, tbVars, pxVars, moreVars>>

\* what the steps of one component leave alone
appFrame == <<lbVars, tbVars, pxVars, moreVars>>
lbFrame == <<appVars, tbVars, pxVars, moreVars>>
tbFrame == <<appVars, lbVars, pxVars, moreVars>>

\* no goroutine on the counters of the registry and no Proxy handler under study
PXOff ==
    /\ connPc = <<>>
    /\ connCall = <<>>
    /\ connState = <<>>
    /\ completed = <<>>
    /\ rq = <<>>
    /\ bstats = <<>>
    /\ resp = [handler |-> "none"]
    /\ served = 0

\* no strategy is called by several goroutines
LBCOff ==
    /\ states = <<>>
    /\ ptrs = <<>>
    /\ weightMutex = [w |-> 0, r |-> 0]
    /\ lpc = <<>>
    /\ lloc = <<>>

\* no BaseBackend under study
BKOff ==
    /\ requestCount = 0
    /\ successCount = 0
    /\ SuccessRate = [num |-> 0, den |-> 1]
    /\ statsPc = "off"
    /\ totalRequests = 0
    /\ hpc = <<>>

\* the subscribers of the ConfigManager are not followed
SubOff == subscribers = <<>>

\* App.Run is not followed
RunOff == runPc = "off" /\ subClosed = FALSE

\* no WorkerPool under study
WPOff ==
    /\ queueClosed = FALSE
    /\ wg = 0
    /\ taskPc = <<>>
    /\ workerTask = <<>>
    /\ execs = <<>>
    /\ waitPc = "off"

MoreOff == LBCOff /\ BKOff /\ SubOff /\ RunOff /\ WPOff

\* no TokenBucket under study
TBOff ==
    /\ defaultRate = 0
    /\ defaultBurst = 0
    /\ userLimits = <<>>
    /\ limiters = <<>>
    /\ heap = <<>>
    /\ now = 0
    /\ mu = 0
    /\ tbLast = [op |-> "none"]
    /\ calls = <<>>
    /\ ref = <<>>
    /\ tpc = <<>>
    /\ tcall = <<>>
    /\ tlim = <<>>
    /\ tlimits = <<>>
    /\ tdone = <<>>
    /\ granted = [n |-> 0, pure |-> TRUE]

(***************************************************************************)
(* Config.validate: method and backend checks.                             *)
(***************************************************************************)
validate(c) ==
    /\ c.method \in {"RoundRobin", "WeightedRoundRobin", "LeastConnections"}
    /\ Len(c.backends) # 0
    /\ \A i \in DOMAIN c.backends : c.backends[i] # ""

ValidConfigs == {c \in FileContents : validate(c)}

(***************************************************************************)
(* ConfigManager.loadConfig, once per debounced change of the file.        *)
(***************************************************************************)
\* the non-blocking send of loadConfig: "case ch <- newConfig: default:"
Notify(ch, c) == IF Len(ch) < 1 THEN Append(ch, c) ELSE ch

LoadFailureMutant(c) ==
    /\ lastError' = TRUE
    /\ config' = c
    /\ UNCHANGED subCh

\* LoadFromFile returned an error: only lastError is written
LoadFailure(c) ==
    /\ lastError' = TRUE
    /\ UNCHANGED <<config, subCh>>

LoadSuccess(c) ==
    /\ config' = c
    /\ lastError' = FALSE
    /\ subCh' = Notify(subCh, c)

loadConfigFail ==
    \E c \in FileContents :
        /\ ~validate(c)
        /\ LoadFailure(c)
        /\ UNCHANGED <<pc, cfgIn, proxy, newP, oldListening, lastReconf, srv,
                       pcfg, reg, inflight, aborted, drainClock>>
        /\ UNCHANGED appFrame

loadConfigOk ==
    \E c \in FileContents :
        /\ validate(c)
        /\ LoadSuccess(c)
        /\ UNCHANGED <<pc, cfgIn, proxy, newP, oldListening, lastReconf, srv,
                       pcfg, reg, inflight, aborted, drainClock>>
        /\ UNCHANGED appFrame

(***************************************************************************)
(* App.watchConfig / App.reconfigure.                                      *)
(***************************************************************************)
Listening == {p \in ProxyIds : srv[p] = "listening"}

\* for cfg := range configCh
watchConfig ==
    /\ pc = "idle"
    /\ subCh # <<>>
    /\ cfgIn' = Head(subCh)
    /\ subCh' = Tail(subCh)
    /\ pc' = "build"
    /\ UNCHANGED <<config, lastError, proxy, newP, oldListening, lastReconf,
                   srv, pcfg, reg, inflight, aborted, drainClock>>
    /\ UNCHANGED appFrame

\* loadbalancer.New: the strategy type built for a method, with an empty
\* registry, or an error
New(method) ==
    CASE method = "RoundRobin"         -> [ok |-> TRUE, impl |-> "RoundRobin", backends |-> {}]
      [] method = "WeightedRoundRobin" -> [ok |-> TRUE, impl |-> "WeightedRoundRobin", backends |-> {}]
      [] method = "LeastConnections"   -> [ok |-> TRUE, impl |-> "LeastConn", backends |-> {}]
      [] OTHER                         -> [ok |-> FALSE, impl |-> "none", backends |-> {}]

\* reconfigure up to transport.NewProxy(lb, rLim, a.appLogger)
reconfigureBuild ==
    /\ pc = "build"
    /\ LET lb == New(cfgIn.method)
           n == CHOOSE p \in ProxyIds : p # proxy
       IN  IF ~lb.ok
           THEN /\ pc' = "idle"
                /\ cfgIn' = NoConfig
                /\ UNCHANGED <<newP, oldListening, srv, pcfg, reg, inflight,
                               aborted>>
           ELSE /\ newP' = n
                /\ oldListening' = (proxy # NoProxy /\ srv[proxy] = "listening")
                /\ srv' = [srv EXCEPT ![n] = "created"]
                /\ pcfg' = [pcfg EXCEPT ![n] = cfgIn]
                /\ reg' = [reg EXCEPT ![n] = lb.backends]
                /\ inflight' = [inflight EXCEPT ![n] = 0]
                /\ aborted' = [aborted EXCEPT ![n] = 0]
                /\ pc' = "start"
                /\ UNCHANGED cfgIn
    /\ UNCHANGED <<config, lastError, subCh, proxy, lastReconf, drainClock>>
    /\ UNCHANGED appFrame

\* Proxy.Start: spawns the ListenAndServe goroutine, sleeps, returns nil
Start(p) == srv' = [srv EXCEPT ![p] = "starting"]

\* newProxy.Start(a.port) in either branch of reconfigure; its error is
\* always nil, so the branch goes on
reconfigureStart ==
    /\ pc = "start"
    /\ Start(newP)
    /\ pc' = IF proxy # NoProxy THEN "stopOld" ELSE "commit"
    /\ UNCHANGED <<config, lastError, subCh, cfgIn, proxy, newP, oldListening,
                   lastReconf, pcfg, reg, inflight, aborted, drainClock>>
    /\ UNCHANGED appFrame

\* the goroutine of Proxy.Start: p.server.ListenAndServe() binds the port, or
\* fails (address in use) and only logs the error
ListenAndServe(p) ==
    /\ srv[p] = "starting"
    /\ srv' = [srv EXCEPT ![p] = IF Listening = {} THEN "listening" ELSE "failed"]
    /\ UNCHANGED <<config, lastError, subCh, pc, cfgIn, proxy, newP,
                   oldListening, lastReconf, pcfg, reg, inflight, aborted,
                   drainClock>>
    /\ UNCHANGED appFrame

StopImmediateClose(p) ==
    /\ srv' = [srv EXCEPT ![p] = "closed"]
    /\ aborted' = [aborted EXCEPT ![p] = aborted[p] + inflight[p]]
    /\ inflight' = [inflight EXCEPT ![p] = 0]
    /\ drainClock' = 0

\* Proxy.Stop, first half: p.server.Shutdown(ctx) closes the listener and
\* starts waiting for the connections to become idle
StopBegin(p) ==
    /\ srv' = [srv EXCEPT ![p] = IF srv[p] = "listening" THEN "draining" ELSE "closed"]
    /\ drainClock' = 0
    /\ UNCHANGED <<inflight, aborted>>

reconfigureStopOld ==
    /\ pc = "stopOld"
    /\ StopBegin(proxy)
    /\ pc' = "draining"
    /\ UNCHANGED <<config, lastError, subCh, cfgIn, proxy, newP, oldListening,
                   lastReconf, pcfg, reg>>
    /\ UNCHANGED appFrame

\* one second of the 30 s shutdown context passes
drainTick ==
    /\ pc = "draining"
    /\ drainClock < StopTimeout
    /\ drainClock' = drainClock + 1
    /\ UNCHANGED <<config, lastError, subCh, pc, cfgIn, proxy, newP,
                   oldListening, lastReconf, srv, pcfg, reg, inflight, aborted>>
    /\ UNCHANGED appFrame

\* Shutdown found every connection idle and returned nil
shutdownDone ==
    /\ pc = "draining"
    /\ inflight[proxy] = 0
    /\ srv' = [srv EXCEPT ![proxy] = "closed"]
    /\ drainClock' = 0
    /\ pc' = "commit"
    /\ UNCHANGED <<config, lastError, subCh, cfgIn, proxy, newP, oldListening,
                   lastReconf, pcfg, reg, inflight, aborted>>
    /\ UNCHANGED appFrame

\* the context expired with requests still running: p.server.Close()
shutdownTimeout ==
    /\ pc = "draining"
    /\ inflight[proxy] > 0
    /\ drainClock = StopTimeout
    /\ srv' = [srv EXCEPT ![proxy] = "closed"]
    /\ aborted' = [aborted EXCEPT ![proxy] = aborted[proxy] + inflight[proxy]]
    /\ inflight' = [inflight EXCEPT ![proxy] = 0]
    /\ drainClock' = 0
    /\ pc' = "commit"
    /\ UNCHANGED <<config, lastError, subCh, cfgIn, proxy, newP, oldListening,
                   lastReconf, pcfg, reg>>
    /\ UNCHANGED appFrame

\* a.proxy = newProxy; return nil.  The cfg argument goes out of scope and the
\* previous instance is no longer referenced.
reconfigureCommit ==
    /\ pc = "commit"
    /\ lastReconf' = IF proxy # NoProxy THEN "hot" ELSE "first"
    /\ proxy' = newP
    /\ cfgIn' = NoConfig
    /\ pcfg' = [p \in ProxyIds |-> IF p = newP THEN pcfg[p] ELSE NoConfig]
    /\ pc' = "idle"
    /\ UNCHANGED <<config, lastError, subCh, newP, oldListening, srv,
                   reg, inflight, aborted, drainClock>>
    /\ UNCHANGED appFrame

(***************************************************************************)
(* Requests served by a listening instance.                                *)
(***************************************************************************)
\* a connection is accepted and its handler starts
accept(p) ==
    /\ srv[p] = "listening"
    /\ inflight[p] < MaxInFlight
    /\ inflight' = [inflight EXCEPT ![p] = inflight[p] + 1]
    /\ UNCHANGED <<config, lastError, subCh, pc, cfgIn, proxy, newP,
                   oldListening, lastReconf, srv, pcfg, reg, aborted, drainClock>>
    /\ UNCHANGED appFrame

\* a handler returns
complete(p) ==
    /\ inflight[p] > 0
    /\ inflight' = [inflight EXCEPT ![p] = inflight[p] - 1]
    /\ UNCHANGED <<config, lastError, subCh, pc, cfgIn, proxy, newP,
                   oldListening, lastReconf, srv, pcfg, reg, aborted, drainClock>>
    /\ UNCHANGED appFrame

\* the strategy of the standalone registry model is not constructed
LBOff ==
    /\ impl = "none"
    /\ backends = <<>>
    /\ current = 0
    /\ last = [op |-> "none", result |-> "nil"]
    /\ picks = <<>>
    /\ hits = <<>>

AppInit ==
    /\ config \in ValidConfigs
    /\ lastError = FALSE
    /\ subCh = <<config>>
    /\ pc = "idle"
    /\ cfgIn = NoConfig
    /\ proxy = NoProxy
    /\ newP = NoProxy
    /\ oldListening = FALSE
    /\ lastReconf = "none"
    /\ srv = [p \in ProxyIds |-> "none"]
    /\ pcfg = [p \in ProxyIds |-> NoConfig]
    /\ reg = [p \in ProxyIds |-> {}]
    /\ inflight = [p \in ProxyIds |-> 0]
    /\ aborted = [p \in ProxyIds |-> 0]
    /\ drainClock = 0

listenAndServe == \E p \in ProxyIds : ListenAndServe(p)
handleAccept == \E p \in ProxyIds : accept(p)
handleComplete == \E p \in ProxyIds : complete(p)

AppNext ==
    \/ loadConfigOk
    \/ loadConfigFail
    \/ watchConfig
    \/ reconfigureBuild
    \/ reconfigureStart
    \/ listenAndServe
    \/ reconfigureStopOld
    \/ drainTick
    \/ shutdownDone
    \/ shutdownTimeout
    \/ reconfigureCommit
    \/ handleAccept
    \/ handleComplete

Init == AppInit /\ LBOff /\ TBOff /\ PXOff /\ MoreOff

Spec == Init /\ [][AppNext]_vars

(***************************************************************************)
(* Hot reload: properties.                                                 *)
(***************************************************************************)
\* C1: a hot reload that began with a.proxy listening on the port ends, once
\* no ListenAndServe goroutine is still pending, with exactly one listening
\* instance.
C1_ExactlyOneActiveAfterReload ==
    (/\ pc = "idle"
     /\ lastReconf = "hot"
     /\ oldListening
     /\ \A p \in ProxyIds : srv[p] # "starting")
    => Cardinality(Listening) = 1

\* C2: when reconfigure stops a previous instance that was listening, the new
\* one is listening (a bind that is still pending is not held against the
\* claim); and a hot reload never ends with an instance that failed to bind
\* as a.proxy.
C2_OldStoppedOnlyAfterNewListens ==
    /\ (pc = "draining" /\ oldListening /\ srv[newP] # "starting")
           => srv[newP] = "listening"
    /\ (pc = "idle" /\ lastReconf = "hot" /\ oldListening)
           => srv[proxy] # "failed"

\* C3: requests of an instance are cut off only by the forced close, which
\* happens only when the instance is draining, its 30 s have elapsed and
\* requests are still running; an instance accepts requests only while it
\* listens, so a draining instance takes no new ones and its running requests
\* can only complete.
C3_DrainThenForcedCloseOnTimeout ==
    [][\A p \in ProxyIds :
          /\ aborted'[p] > aborted[p] =>
                /\ srv[p] = "draining"
                /\ drainClock = StopTimeout
                /\ inflight[p] > 0
                /\ aborted'[p] = aborted[p] + inflight[p]
          /\ inflight'[p] > inflight[p] => srv[p] = "listening"
          /\ (srv[p] = "listening" /\ srv'[p] = "closed") => FALSE
      ]_vars

\* C3 witness: a drain ran into its timeout and the instance was closed with
\* requests still running.
C3_Witness ==
    \E p \in ProxyIds : srv[p] = "closed" /\ aborted[p] > 0

\* C4: after a successful (re)configuration the registry of the active
\* strategy holds exactly the backends of the configuration it was built from.
C4_RegistryHoldsConfiguredBackends ==
    (pc = "idle" /\ proxy # NoProxy) => reg[proxy] = Range(pcfg[proxy].backends)

\* C5: a load that fails leaves GetConfig's value and the subscriber channel
\* as they were (lastError is the only field written), and the step in which
\* the error appears neither builds, starts, stops nor replaces an instance.
C5_FailedLoadChangesOnlyLastError ==
    [][/\ lastError' => (config' = config /\ Len(subCh') <= Len(subCh))
       /\ (~lastError /\ lastError') =>
             UNCHANGED <<config, subCh, pc, cfgIn, proxy, newP, srv, pcfg,
                         reg, inflight, aborted>>
      ]_vars

\* C5 witness: a failed load was recorded while an instance is active and
\* listening, and GetConfig still returns a valid configuration.
C5_Witness ==
    /\ lastError
    /\ proxy # NoProxy
    /\ srv[proxy] = "listening"
    /\ validate(config)

\* C30: a configuration snapshot may be skipped, the latest one is not: once
\* the orchestrator has nothing left to do (it waits on an empty channel),
\* the proxy it runs was built from the configuration loaded last.  A state
\* that breaks this ends a run in which, with no further change of the file,
\* the latest configuration is never applied.
C30_LatestSnapshotApplied ==
    (pc = "idle" /\ subCh = <<>>) =>
        (proxy # NoProxy /\ pcfg[proxy] = config)

(***************************************************************************)
(* Backend registry (BaseLoadBalancer) and the selection strategies.       *)
(***************************************************************************)
\* largest |ActiveConnections| the model lets a backend reach
MaxConns == 1
\* largest value of the round-robin counter the model lets Invoke reach
MaxCounter == 4
\* largest configured weight of a backend
MaxWeight == 2

\* (next % 1000) / 1000.0 in WeightedRoundRobin.Invoke
CycleLen == 1000

LBIds == {"b1", "b2", "b3"}
Nil == "nil"
Panic == "panic"

\* the strategy types: RoundRobin, WeightedRoundRobin, LeastConn (the one
\* loadbalancer.New builds) and LeastConnections (least_connections.go)
Impls == {"RoundRobin", "WeightedRoundRobin", "LeastConn", "LeastConnections"}

\* &BackendState{Backend: backend}: zero Stats, zero Weight
ZeroState == [ActiveConnections |-> 0, ResponseTime |-> 0, Weight |-> 0]

\* BaseLoadBalancer.AddBackend: b.backends[id] = a fresh state
BaseAddBackend(bs, id) ==
    [x \in DOMAIN bs \cup {id} |-> IF x = id THEN ZeroState ELSE bs[x]]

\* WeightedRoundRobin.AddBackend: the base AddBackend, then state.Weight
WeightedAddBackend(bs, id, weight) ==
    LET added == BaseAddBackend(bs, id)
    IN  [added EXCEPT ![id].Weight = IF weight <= 0 THEN 1 ELSE weight]

\* BaseLoadBalancer.RemoveBackend
BaseRemoveBackend(bs, id) ==
    IF id \in DOMAIN bs THEN [x \in DOMAIN bs \ {id} |-> bs[x]] ELSE bs

\* IncActiveConnections written as b.backends[id].Stats.ActiveConnections++
\* on a map of values, which makes the entry when there is none
BaseIncActiveConnectionsMakesEntry(bs, id) ==
    IF id \in DOMAIN bs
    THEN [bs EXCEPT ![id].ActiveConnections = @ + 1]
    ELSE [x \in DOMAIN bs \cup {id} |->
             IF x = id THEN [ZeroState EXCEPT !.ActiveConnections = 1] ELSE bs[x]]

\* BaseLoadBalancer.IncActiveConnections / DecActiveConnections
BaseIncActiveConnections(bs, id) ==
    IF id \in DOMAIN bs
    THEN [bs EXCEPT ![id].ActiveConnections = @ + 1]
    ELSE bs

BaseDecActiveConnections(bs, id) ==
    IF id \in DOMAIN bs
    THEN [bs EXCEPT ![id].ActiveConnections = @ - 1]
    ELSE bs

\* BaseLoadBalancer.GetBackends: the states in the iteration order of the Go
\* map, which the language leaves unspecified and the runtime varies from one
\* range loop to the next; every order of the ids is a possible snapshot
GetBackends(bs) ==
    {f \in [1..Cardinality(DOMAIN bs) -> DOMAIN bs] :
        \A x \in DOMAIN bs : \E i \in DOMAIN f : f[i] = x}

RoundRobinInvokeUnchecked(snap, cur, bs) ==
    IF Len(snap) = 0
    THEN [result |-> Panic, current |-> cur + 1, backends |-> bs]
    ELSE [result |-> snap[((cur + 1) % Len(snap)) + 1],
          current |-> cur + 1, backends |-> bs]

\* RoundRobin.Invoke on the snapshot snap with r.current = cur
RoundRobinInvoke(snap, cur, bs) ==
    IF Len(snap) = 0
    THEN [result |-> Nil, current |-> cur, backends |-> bs]
    ELSE [result |-> snap[((cur + 1) % Len(snap)) + 1],
          current |-> cur + 1, backends |-> bs]

\* sum of b.Weight over the first n entries of the snapshot
RECURSIVE AccumWeight(_, _, _)
AccumWeight(snap, bs, n) ==
    IF n = 0 THEN 0 ELSE AccumWeight(snap, bs, n - 1) + bs[snap[n]].Weight

\* WeightedRoundRobin.Invoke that compares with accumWeight > target
WeightedInvokeStrict(snap, cur, bs) ==
    IF Len(snap) = 0
    THEN [result |-> Nil, current |-> cur, backends |-> bs]
    ELSE LET totalWeight == AccumWeight(snap, bs, Len(snap))
             next == cur + 1
             reached == {i \in 1..Len(snap) :
                            AccumWeight(snap, bs, i) * CycleLen
                               > (next % CycleLen) * totalWeight}
             first == CHOOSE i \in reached : \A j \in reached : i <= j
         IN  [result |-> IF reached # {} THEN snap[first] ELSE snap[Len(snap)],
              current |-> next, backends |-> bs]

\* WeightedRoundRobin.Invoke: target = (next % 1000) / 1000 * totalWeight, the
\* first backend whose accumulated weight reaches it, else the last one.
\* accumWeight >= target is evaluated as accumWeight * 1000 >= (next % 1000) *
\* totalWeight.
WeightedInvoke(snap, cur, bs) ==
    IF Len(snap) = 0
    THEN [result |-> Nil, current |-> cur, backends |-> bs]
    ELSE LET totalWeight == AccumWeight(snap, bs, Len(snap))
             next == cur + 1
             reached == {i \in 1..Len(snap) :
                            AccumWeight(snap, bs, i) * CycleLen
                               >= (next % CycleLen) * totalWeight}
             first == CHOOSE i \in reached : \A j \in reached : i <= j
         IN  [result |-> IF reached # {} THEN snap[first] ELSE snap[Len(snap)],
              current |-> next, backends |-> bs]

ConnLessFlipped(c, sel, minConn) == sel = 0 \/ c > minConn

\* "connections < minConn": minConn starts at math.MaxInt64, which every
\* count of the model is below, and afterwards holds the count of the
\* selected entry (sel = 0 while nothing is selected)
ConnLess(c, sel, minConn) == sel = 0 \/ c < minConn

\* the scan of LeastConn.Invoke / LeastConnections.Invoke over the first n
\* entries: the index selected and its count
RECURSIVE MinConnScan(_, _, _)
MinConnScan(snap, bs, n) ==
    IF n = 0
    THEN [sel |-> 0, minConn |-> 0]
    ELSE LET prev == MinConnScan(snap, bs, n - 1)
             c == bs[snap[n]].ActiveConnections
         IN  IF ConnLess(c, prev.sel, prev.minConn)
             THEN [sel |-> n, minConn |-> c]
             ELSE prev

\* LeastConn.Invoke (part of package leastconn that New wires in)
LeastConnInvoke(snap, cur, bs) ==
    IF Len(snap) = 0
    THEN [result |-> Nil, current |-> cur, backends |-> bs]
    ELSE LET sel == MinConnScan(snap, bs, Len(snap)).sel
         IN  [result |-> IF sel = 0 THEN Nil ELSE snap[sel],
              current |-> cur, backends |-> bs]

\* LeastConnections.Invoke (least_connections.go): falls back to the first
\* entry and increments the selected backend's ActiveConnections
LeastConnectionsInvoke(snap, cur, bs) ==
    IF Len(snap) = 0
    THEN [result |-> Nil, current |-> cur, backends |-> bs]
    ELSE LET scan == MinConnScan(snap, bs, Len(snap)).sel
             sel == IF scan = 0 THEN 1 ELSE scan
         IN  [result |-> snap[sel], current |-> cur,
              backends |-> BaseIncActiveConnections(bs, snap[sel])]

\* Invoke of the strategy type t
Invoke(t, snap, cur, bs) ==
    CASE t = "RoundRobin"         -> RoundRobinInvoke(snap, cur, bs)
      [] t = "WeightedRoundRobin" -> WeightedInvoke(snap, cur, bs)
      [] t = "LeastConn"          -> LeastConnInvoke(snap, cur, bs)
      [] t = "LeastConnections"   -> LeastConnectionsInvoke(snap, cur, bs)

\* results of the last Invoke calls of a RoundRobin, at most as many as there
\* are ids (the other strategies keep no such record)
Remember(t, ps, r) ==
    LET all == Append(ps, r)
    IN  IF t # "RoundRobin" THEN ps
        ELSE IF Len(all) > Cardinality(LBIds) THEN Tail(all) ELSE all

\* the App of the hot-reload model is not constructed
AppOff ==
    /\ config = NoConfig
    /\ lastError = FALSE
    /\ subCh = <<>>
    /\ pc = "off"
    /\ cfgIn = NoConfig
    /\ proxy = NoProxy
    /\ newP = NoProxy
    /\ oldListening = FALSE
    /\ lastReconf = "none"
    /\ srv = [p \in ProxyIds |-> "none"]
    /\ pcfg = [p \in ProxyIds |-> NoConfig]
    /\ reg = [p \in ProxyIds |-> {}]
    /\ inflight = [p \in ProxyIds |-> 0]
    /\ aborted = [p \in ProxyIds |-> 0]
    /\ drainClock = 0

\* roundrobin.New / weighted.New / NewLeastConn / leastconn.New
LBInit ==
    /\ impl \in Impls
    /\ backends = <<>>
    /\ current = 0
    /\ last = [op |-> "New", result |-> Nil]
    /\ picks = <<>>
    /\ hits = <<>>

\* lb.AddBackend(b) for a backend with configured weight b.Weight()
AddBackend ==
    \E id \in LBIds, weight \in 0..MaxWeight :
        /\ backends' = IF impl = "WeightedRoundRobin"
                       THEN WeightedAddBackend(backends, id, weight)
                       ELSE BaseAddBackend(backends, id)
        /\ last' = [op |-> "AddBackend", result |-> Nil]
        /\ picks' = <<>>
        /\ UNCHANGED <<impl, current, hits>>
        /\ UNCHANGED lbFrame

\* lb.RemoveBackend(b)
RemoveBackend ==
    \E id \in LBIds :
        /\ backends' = BaseRemoveBackend(backends, id)
        /\ last' = [op |-> "RemoveBackend", result |-> Nil]
        /\ picks' = <<>>
        /\ UNCHANGED <<impl, current, hits>>
        /\ UNCHANGED lbFrame

\* lb.IncActiveConnections(id)
IncActiveConnections ==
    \E id \in LBIds :
        /\ id \in DOMAIN backends => backends[id].ActiveConnections < MaxConns
        /\ backends' = BaseIncActiveConnections(backends, id)
        /\ last' = [op |-> "IncActiveConnections", result |-> Nil]
        /\ UNCHANGED <<impl, current, picks, hits>>
        /\ UNCHANGED lbFrame

\* lb.DecActiveConnections(id)
DecActiveConnections ==
    \E id \in LBIds :
        /\ id \in DOMAIN backends => backends[id].ActiveConnections > -MaxConns
        /\ backends' = BaseDecActiveConnections(backends, id)
        /\ last' = [op |-> "DecActiveConnections", result |-> Nil]
        /\ UNCHANGED <<impl, current, picks, hits>>
        /\ UNCHANGED lbFrame

\* lb.Invoke(request): one snapshot from GetBackends, then the selection
InvokeStep ==
    \E snap \in GetBackends(backends) :
        LET r == Invoke(impl, snap, current, backends)
        IN  /\ current < MaxCounter
            /\ r.result \in DOMAIN backends =>
                   r.backends[r.result].ActiveConnections <= MaxConns
            /\ backends' = r.backends
            /\ current' = r.current
            /\ last' = [op |-> "Invoke", result |-> r.result]
            /\ picks' = Remember(impl, picks, r.result)
            /\ UNCHANGED <<impl, hits>>
            /\ UNCHANGED lbFrame

LBNext ==
    \/ AddBackend
    \/ RemoveBackend
    \/ IncActiveConnections
    \/ DecActiveConnections
    \/ InvokeStep

InitLB == AppOff /\ LBInit /\ TBOff /\ PXOff /\ MoreOff

SpecLB == InitLB /\ [][LBNext]_vars

(***************************************************************************)
(* The registry called with ids it may not hold: every call runs to its     *)
(* end and records its id.                                                  *)
(***************************************************************************)
\* largest responseTime handed to UpdateResponseTime
MaxResponseTime == 1

\* BaseLoadBalancer.GetBackend: the state under the id (named by the id), or
\* nil
BaseGetBackend(bs, id) == IF id \in DOMAIN bs THEN id ELSE Nil

\* BaseLoadBalancer.UpdateResponseTime
BaseUpdateResponseTime(bs, id, responseTime) ==
    IF BaseGetBackend(bs, id) # Nil
    THEN [bs EXCEPT ![id].ResponseTime = responseTime]
    ELSE bs

\* a call with argument id has returned result
Called(op, id, result) == [op |-> op, id |-> id, result |-> result]

callRemoveBackend ==
    \E id \in LBIds :
        /\ backends' = BaseRemoveBackend(backends, id)
        /\ last' = Called("RemoveBackend", id, Nil)
        /\ picks' = <<>>
        /\ UNCHANGED <<impl, current, hits>>
        /\ UNCHANGED lbFrame

callGetBackend ==
    \E id \in LBIds :
        /\ last' = Called("GetBackend", id, BaseGetBackend(backends, id))
        /\ UNCHANGED <<impl, backends, current, picks, hits>>
        /\ UNCHANGED lbFrame

callIncActiveConnections ==
    \E id \in LBIds :
        /\ id \in DOMAIN backends => backends[id].ActiveConnections < MaxConns
        /\ backends' = BaseIncActiveConnections(backends, id)
        /\ last' = Called("IncActiveConnections", id, Nil)
        /\ UNCHANGED <<impl, current, picks, hits>>
        /\ UNCHANGED lbFrame

callDecActiveConnections ==
    \E id \in LBIds :
        /\ id \in DOMAIN backends => backends[id].ActiveConnections >= 0
        /\ backends' = BaseDecActiveConnections(backends, id)
        /\ last' = Called("DecActiveConnections", id, Nil)
        /\ UNCHANGED <<impl, current, picks, hits>>
        /\ UNCHANGED lbFrame

callUpdateResponseTime ==
    \E id \in LBIds, responseTime \in 0..MaxResponseTime :
        /\ backends' = BaseUpdateResponseTime(backends, id, responseTime)
        /\ last' = Called("UpdateResponseTime", id, Nil)
        /\ UNCHANGED <<impl, current, picks, hits>>
        /\ UNCHANGED lbFrame

RegNext ==
    \/ AddBackend
    \/ callRemoveBackend
    \/ callGetBackend
    \/ callIncActiveConnections
    \/ callDecActiveConnections
    \/ callUpdateResponseTime

\* the registry of a RoundRobin or of a WeightedRoundRobin
InitReg ==
    /\ AppOff /\ LBInit /\ TBOff /\ PXOff /\ MoreOff
    /\ impl \in {"RoundRobin", "WeightedRoundRobin"}

SpecReg == InitReg /\ [][RegNext]_vars

(***************************************************************************)
(* Goroutines that call IncActiveConnections and DecActiveConnections on a  *)
(* registry nobody adds to or removes from: a call is GetBackend, then the  *)
(* atomic add on the state it returned.                                     *)
(***************************************************************************)
\* calls the goroutines make in one run
MaxConnCalls == 3

\* the ids AddBackend was called with on a strategy before it is used
Registries == {<<>>, <<"b1">>, <<"b1", "b2">>}

\* the registry of a strategy of type t after those AddBackend calls
RECURSIVE Registered(_, _)
Registered(t, ids) ==
    IF ids = <<>> THEN <<>>
    ELSE LET rest == Registered(t, SubSeq(ids, 1, Len(ids) - 1))
             id == ids[Len(ids)]
         IN  IF t = "WeightedRoundRobin"
             THEN WeightedAddBackend(rest, id, 1)
             ELSE BaseAddBackend(rest, id)

\* an add that stores the delta
AddInt64Overwrites(v, delta) == delta

\* atomic.AddInt64(&v, delta): the new value
AddInt64(v, delta) == v + delta

\* calls begun so far
ConnCalls ==
    LET S == DOMAIN completed
        RECURSIVE Sum(_)
        Sum(T) == IF T = {} THEN 0
                  ELSE LET x == CHOOSE y \in T : TRUE
                       IN  completed[x].inc + completed[x].dec + Sum(T \ {x})
    IN  Sum(S) + Cardinality({t \in DOMAIN connPc : connPc[t] # "idle"})

\* a strategy with its backends added, and goroutines that hold it
ConnInit ==
    /\ impl = "RoundRobin"
    /\ \E ids \in Registries : backends = Registered(impl, ids)
    /\ current = 0
    /\ last = [op |-> "New", result |-> Nil]
    /\ picks = <<>>
    /\ hits = <<>>
    /\ connPc = [t \in Threads |-> "idle"]
    /\ connCall = [t \in Threads |-> [op |-> "none", id |-> Nil]]
    /\ connState = [t \in Threads |-> Nil]
    /\ completed = [id \in LBIds |-> [inc |-> 0, dec |-> 0]]
    /\ rq = <<>>
    /\ bstats = <<>>
    /\ resp = [handler |-> "none"]
    /\ served = 0

connFrame == <<appVars, tbVars, impl, current, last, picks, hits, rq, bstats,
               resp, served, moreVars>>

\* the call has returned
connReturn(t) ==
    /\ connPc' = [connPc EXCEPT ![t] = "idle"]
    /\ connCall' = [connCall EXCEPT ![t] = [op |-> "none", id |-> Nil]]
    /\ connState' = [connState EXCEPT ![t] = Nil]
    /\ completed' =
           [completed EXCEPT ![connCall[t].id] =
               IF connCall[t].op = "IncActiveConnections"
               THEN [@ EXCEPT !.inc = @ + 1] ELSE [@ EXCEPT !.dec = @ + 1]]

\* a goroutine calls IncActiveConnections(id) or DecActiveConnections(id)
goIncDec(t) ==
    \E op \in {"IncActiveConnections", "DecActiveConnections"}, id \in LBIds :
        /\ connPc[t] = "idle"
        /\ ConnCalls < MaxConnCalls
        /\ connPc' = [connPc EXCEPT ![t] = "GetBackend"]
        /\ connCall' = [connCall EXCEPT ![t] = [op |-> op, id |-> id]]
        /\ UNCHANGED <<backends, connState, completed>>
        /\ UNCHANGED connFrame

\* state := b.GetBackend(id); with nil the call returns
connGetBackend(t) ==
    LET state == BaseGetBackend(backends, connCall[t].id)
    IN  /\ connPc[t] = "GetBackend"
        /\ IF state = Nil
           THEN connReturn(t)
           ELSE /\ connPc' = [connPc EXCEPT ![t] = "AddInt64"]
                /\ connState' = [connState EXCEPT ![t] = state]
                /\ UNCHANGED <<connCall, completed>>
        /\ UNCHANGED backends
        /\ UNCHANGED connFrame

\* atomic.AddInt64(&state.Stats.ActiveConnections, 1 or -1), and the return
connAddInt64(t) ==
    LET delta == IF connCall[t].op = "IncActiveConnections" THEN 1 ELSE -1
    IN  /\ connPc[t] = "AddInt64"
        /\ backends' = [backends EXCEPT ![connState[t]].ActiveConnections =
                                            AddInt64(@, delta)]
        /\ connReturn(t)
        /\ UNCHANGED connFrame

callIncDec == \E t \in Threads : goIncDec(t)
doGetBackend == \E t \in Threads : connGetBackend(t)
doAddInt64 == \E t \in Threads : connAddInt64(t)

ConnNext ==
    \/ callIncDec
    \/ doGetBackend
    \/ doAddInt64

InitConn == AppOff /\ ConnInit /\ TBOff /\ MoreOff

SpecConn == InitConn /\ [][ConnNext]_vars

(***************************************************************************)
(* One 1000-step cycle of WeightedRoundRobin over a fixed pair of backends. *)
(***************************************************************************)
\* weighted.New followed by AddBackend of b1 and b2 with weights w1 and w2
WRRInit ==
    /\ impl = "WeightedRoundRobin"
    /\ \E w1 \in 1..MaxWeight, w2 \in 1..MaxWeight :
          backends = WeightedAddBackend(WeightedAddBackend(<<>>, "b1", w1), "b2", w2)
    /\ current = 0
    /\ last = [op |-> "AddBackend", result |-> Nil]
    /\ picks = <<>>
    /\ hits = [b \in {"b1", "b2"} |-> 0]

\* WeightedRoundRobin.Invoke, counting per backend how often it is returned
WeightedCycleInvoke ==
    \E snap \in GetBackends(backends) :
        LET r == WeightedInvoke(snap, current, backends)
        IN  /\ current < CycleLen
            /\ current' = r.current
            /\ hits' = [hits EXCEPT ![r.result] = @ + 1]
            /\ UNCHANGED <<impl, backends, last, picks>>
            /\ UNCHANGED lbFrame

WRRNext == WeightedCycleInvoke

InitWRR == AppOff /\ WRRInit /\ TBOff /\ PXOff /\ MoreOff

SpecWRR == InitWRR /\ [][WRRNext]_vars

(***************************************************************************)
(* WeightedRoundRobin.Invoke as a function of the counter and the snapshot: *)
(* Invoke calls over a fixed registry, through the 1000-step cycle and past *)
(* its end.                                                                 *)
(***************************************************************************)
\* the ids AddBackend was called with on a WeightedRoundRobin
WeightedRegistries == {<<"b1">>, <<"b1", "b2">>, <<"b1", "b2", "b3">>}

\* weighted.New followed by AddBackend of backends with weights 1..MaxWeight
WIInit ==
    /\ impl = "WeightedRoundRobin"
    /\ \E ids \in WeightedRegistries :
          \E w \in [LBIds -> 1..MaxWeight] :
             backends = [id \in {ids[i] : i \in DOMAIN ids} |->
                            WeightedAddBackend(<<>>, id, w[id])[id]]
    /\ current = 0
    /\ last = [op |-> "AddBackend", result |-> Nil]
    /\ picks = <<>>
    /\ hits = <<>>

\* WeightedRoundRobin.Invoke, with the snapshot GetBackends gave it
WeightedInvokeCall ==
    \E snap \in GetBackends(backends) :
        LET r == WeightedInvoke(snap, current, backends)
        IN  /\ current <= CycleLen
            /\ current' = r.current
            /\ last' = [op |-> "WeightedInvoke", result |-> r.result,
                        snap |-> snap]
            /\ UNCHANGED <<impl, backends, picks, hits>>
            /\ UNCHANGED lbFrame

WINext == WeightedInvokeCall

InitWI == AppOff /\ WIInit /\ TBOff /\ PXOff /\ MoreOff

SpecWI == InitWI /\ [][WINext]_vars

(***************************************************************************)
(* One strategy called by several goroutines: AddBackend, RemoveBackend and *)
(* Invoke are sequences of steps, one per critical section of b.mu, per     *)
(* operation on w.weightMutex and per pass over the snapshot.  The registry *)
(* maps ids to addresses of BackendState objects, a snapshot is a list of   *)
(* addresses, and Weight is read through the address when the code reads it.*)
(***************************************************************************)
\* BackendState objects made in one run
MaxStates == 2

\* ids of the backends handed to AddBackend and RemoveBackend
LBCIds == {"b1", "b2"}

\* Invoke calls made in one run
MaxInvokes == 2

\* Backend.Weight() of the backends handed to AddBackend: unset, and set
CfgWeights == {0, 2}

\* the local variables of a goroutine that is in no call
NoCall == [op |-> "none", id |-> "", cfg |-> 0, state |-> 0, snap |-> <<>>,
           total |-> 0, fallback |-> FALSE, registered |-> <<>>]

\* &BackendState{Backend: backend} for the backend (id, cfg)
NewState(id, cfg) ==
    [id |-> id, cfg |-> cfg, ActiveConnections |-> 0, ResponseTime |-> 0,
     Weight |-> 0]

\* the weight AddBackend gives a backend whose Weight() is cfg
DefaultedWeight(cfg) == IF cfg <= 0 THEN 1 ELSE cfg

\* GetBackends that also returns the states RemoveBackend has taken out
SnapshotsKeepRemoved(ps, sts) ==
    {f \in [1..Len(sts) -> DOMAIN sts] :
        \A x \in DOMAIN sts : \E i \in DOMAIN f : f[i] = x}

\* BaseLoadBalancer.GetBackends: the addresses in b.backends, in any order
Snapshots(ps, sts) == {[i \in DOMAIN f |-> ps[f[i]]] : f \in GetBackends(ps)}

\* w.weightMutex.Lock() that does not wait for anybody
WeightLockAlwaysFree(m) == TRUE

\* w.weightMutex.Lock() goes through when no writer and no reader holds it
WeightLockFree(m) == m.w = 0 /\ m.r = 0

\* w.weightMutex.RLock() goes through when no writer holds it
WeightRLockFree(m) == m.w = 0

\* the walk of WeightedRoundRobin.Invoke with the totalWeight of the first
\* loop: the first entry whose accumulated weight reaches the target, else
\* the last entry
WeightedWalk(snap, next, sts, totalWeight) ==
    LET reached == {i \in 1..Len(snap) :
                       AccumWeight(snap, sts, i) * CycleLen
                          >= (next % CycleLen) * totalWeight}
    IN  IF reached # {}
        THEN [index |-> CHOOSE i \in reached : \A j \in reached : i <= j,
              fallback |-> FALSE]
        ELSE [index |-> Len(snap), fallback |-> TRUE]

\* a new strategy of any type, with goroutines that hold it
LBCInit ==
    /\ impl \in Impls
    /\ backends = <<>>
    /\ current = 0
    /\ last = [op |-> "New", result |-> Nil]
    /\ picks = <<>>
    /\ hits = <<>>
    /\ states = <<>>
    /\ ptrs = <<>>
    /\ weightMutex = [w |-> 0, r |-> 0]
    /\ lpc = [t \in Threads |-> "idle"]
    /\ lloc = [t \in Threads |-> NoCall]

lbcFrame == <<appVars, tbVars, pxVars, impl, backends, picks, hits, bkVars,
              subVars, runVars, wpVars>>

\* the call of goroutine t returns result
lbcReturn(t, result) ==
    /\ lpc' = [lpc EXCEPT ![t] = "idle"]
    /\ lloc' = [lloc EXCEPT ![t] = NoCall]
    /\ last' = result

\* a goroutine calls AddBackend(b): WeightedRoundRobin locks w.weightMutex
\* first, the other strategies go to the base AddBackend
goAddBackend(t) ==
    \E id \in LBCIds, cfg \in CfgWeights :
        /\ lpc[t] = "idle"
        /\ Len(states) + Cardinality({o \in Threads : lloc[o].op = "AddBackend"
                                                      /\ lpc[o] \in {"Lock", "baseAdd"}})
              < MaxStates
        /\ lpc' = [lpc EXCEPT ![t] = IF impl = "WeightedRoundRobin"
                                     THEN "Lock" ELSE "baseAdd"]
        /\ lloc' = [lloc EXCEPT ![t] = [NoCall EXCEPT !.op = "AddBackend",
                                                      !.id = id, !.cfg = cfg]]
        /\ UNCHANGED <<states, ptrs, weightMutex, current, last>>
        /\ UNCHANGED lbcFrame

\* w.weightMutex.Lock()
weightLock(t) ==
    /\ lpc[t] = "Lock"
    /\ WeightLockFree(weightMutex)
    /\ weightMutex' = [weightMutex EXCEPT !.w = t]
    /\ lpc' = [lpc EXCEPT ![t] = "baseAdd"]
    /\ UNCHANGED <<states, ptrs, lloc, current, last>>
    /\ UNCHANGED lbcFrame

\* BaseLoadBalancer.AddBackend, under b.mu: a new state under the id
baseAddBackend(t) ==
    /\ lpc[t] = "baseAdd"
    /\ states' = Append(states, NewState(lloc[t].id, lloc[t].cfg))
    /\ ptrs' = [x \in DOMAIN ptrs \cup {lloc[t].id} |->
                   IF x = lloc[t].id THEN Len(states) + 1 ELSE ptrs[x]]
    /\ IF impl = "WeightedRoundRobin"
       THEN /\ lpc' = [lpc EXCEPT ![t] = "GetBackend"]
            /\ UNCHANGED <<lloc, last>>
       ELSE lbcReturn(t, [op |-> "AddBackend", result |-> Nil])
    /\ UNCHANGED <<weightMutex, current>>
    /\ UNCHANGED lbcFrame

\* WeightedRoundRobin.AddBackend: state := w.GetBackend(b.ID())
weightedGetBackend(t) ==
    /\ lpc[t] = "GetBackend"
    /\ lloc' = [lloc EXCEPT ![t].state =
                   IF lloc[t].id \in DOMAIN ptrs THEN ptrs[lloc[t].id] ELSE 0]
    /\ lpc' = [lpc EXCEPT ![t] = IF lloc[t].id \in DOMAIN ptrs
                                 THEN "setWeight" ELSE "Unlock"]
    /\ UNCHANGED <<states, ptrs, weightMutex, current, last>>
    /\ UNCHANGED lbcFrame

\* WeightedRoundRobin.AddBackend: state.Weight = weight, 1.0 for weight <= 0
weightedSetWeight(t) ==
    /\ lpc[t] = "setWeight"
    /\ states' = [states EXCEPT ![lloc[t].state].Weight =
                                    DefaultedWeight(lloc[t].cfg)]
    /\ lpc' = [lpc EXCEPT ![t] = "Unlock"]
    /\ UNCHANGED <<ptrs, weightMutex, lloc, current, last>>
    /\ UNCHANGED lbcFrame

\* the deferred w.weightMutex.Unlock() of AddBackend
weightUnlock(t) ==
    /\ lpc[t] = "Unlock"
    /\ weightMutex' = [weightMutex EXCEPT !.w = IF @ = t THEN 0 ELSE @]
    /\ lbcReturn(t, [op |-> "AddBackend", result |-> Nil])
    /\ UNCHANGED <<states, ptrs, current>>
    /\ UNCHANGED lbcFrame

\* RemoveBackend(b), under b.mu
goRemoveBackend(t) ==
    \E id \in LBCIds :
        /\ lpc[t] = "idle"
        /\ ptrs' = BaseRemoveBackend(ptrs, id)
        /\ last' = [op |-> "RemoveBackend", result |-> Nil]
        /\ UNCHANGED <<states, weightMutex, lpc, lloc, current>>
        /\ UNCHANGED lbcFrame

\* a goroutine calls Invoke(request): WeightedRoundRobin takes the read lock
\* of w.weightMutex first
goInvoke(t) ==
    /\ lpc[t] = "idle"
    /\ current + Cardinality({o \in Threads : lloc[o].op = "Invoke"}) < MaxInvokes
    /\ lpc' = [lpc EXCEPT ![t] = IF impl = "WeightedRoundRobin"
                                 THEN "RLock" ELSE "GetBackends"]
    /\ lloc' = [lloc EXCEPT ![t] = [NoCall EXCEPT !.op = "Invoke"]]
    /\ UNCHANGED <<states, ptrs, weightMutex, current, last>>
    /\ UNCHANGED lbcFrame

\* w.weightMutex.RLock()
weightRLock(t) ==
    /\ lpc[t] = "RLock"
    /\ WeightRLockFree(weightMutex)
    /\ weightMutex' = [weightMutex EXCEPT !.r = @ + 1]
    /\ lpc' = [lpc EXCEPT ![t] = "GetBackends"]
    /\ UNCHANGED <<states, ptrs, lloc, current, last>>
    /\ UNCHANGED lbcFrame

\* backends := GetBackends(), under the read lock of b.mu; with an empty
\* snapshot Invoke returns nil
invokeGetBackends(t) ==
    \E snap \in Snapshots(ptrs, states) :
        /\ lpc[t] = "GetBackends"
        /\ IF Len(snap) = 0 /\ impl # "WeightedRoundRobin"
           THEN lbcReturn(t, [op |-> "Invoke", result |-> Nil, state |-> 0,
                              registered |-> ptrs, fallback |-> FALSE])
           ELSE /\ lloc' = [lloc EXCEPT ![t].snap = snap,
                                        ![t].registered = ptrs]
                /\ lpc' = [lpc EXCEPT ![t] =
                              CASE impl # "WeightedRoundRobin" -> "select"
                                [] Len(snap) = 0 -> "RUnlock"
                                [] OTHER -> "totalWeight"]
                /\ UNCHANGED last
        /\ UNCHANGED <<states, ptrs, weightMutex, current>>
        /\ UNCHANGED lbcFrame

\* RoundRobin, LeastConn and LeastConnections: the selection from the
\* snapshot; LeastConnections ends with IncActiveConnections(id), which looks
\* the id up in the registry again
invokeSelect(t) ==
    LET r == Invoke(impl, lloc[t].snap, current, states)
        id == states[r.result].id
    IN  /\ lpc[t] = "select"
        /\ impl = "LeastConnections" =>
               \A p \in DOMAIN states : states[p].ActiveConnections < MaxConns
        /\ current' = r.current
        /\ states' = IF impl = "LeastConnections" /\ id \in DOMAIN ptrs
                     THEN BaseIncActiveConnections(states, ptrs[id])
                     ELSE states
        /\ lbcReturn(t, [op |-> "Invoke", result |-> id, state |-> r.result,
                         registered |-> lloc[t].registered, fallback |-> FALSE])
        /\ UNCHANGED <<ptrs, weightMutex>>
        /\ UNCHANGED lbcFrame

\* WeightedRoundRobin.Invoke: the loop totalWeight += b.Weight
invokeTotalWeight(t) ==
    /\ lpc[t] = "totalWeight"
    /\ lloc' = [lloc EXCEPT ![t].total =
                   AccumWeight(lloc[t].snap, states, Len(lloc[t].snap))]
    /\ lpc' = [lpc EXCEPT ![t] = "walk"]
    /\ UNCHANGED <<states, ptrs, weightMutex, current, last>>
    /\ UNCHANGED lbcFrame

\* WeightedRoundRobin.Invoke: next := atomic.AddUint64(&w.current, 1) and the
\* loop that accumulates b.Weight up to the target
invokeWalk(t) ==
    LET walk == WeightedWalk(lloc[t].snap, current + 1, states, lloc[t].total)
    IN  /\ lpc[t] = "walk"
        /\ current' = current + 1
        /\ lloc' = [lloc EXCEPT ![t].state = lloc[t].snap[walk.index],
                                ![t].fallback = walk.fallback]
        /\ lpc' = [lpc EXCEPT ![t] = "RUnlock"]
        /\ UNCHANGED <<states, ptrs, weightMutex, last>>
        /\ UNCHANGED lbcFrame

\* the deferred w.weightMutex.RUnlock() of Invoke, and its return
weightRUnlock(t) ==
    /\ lpc[t] = "RUnlock"
    /\ weightMutex' = [weightMutex EXCEPT !.r = @ - 1]
    /\ lbcReturn(t, [op |-> "Invoke",
                     result |-> IF lloc[t].state = 0 THEN Nil
                                ELSE states[lloc[t].state].id,
                     state |-> lloc[t].state,
                     registered |-> lloc[t].registered,
                     fallback |-> lloc[t].fallback])
    /\ UNCHANGED <<states, ptrs, current>>
    /\ UNCHANGED lbcFrame

callAddBackend == \E t \in Threads : goAddBackend(t)
doWeightLock == \E t \in Threads : weightLock(t)
doBaseAddBackend == \E t \in Threads : baseAddBackend(t)
doWeightedGetBackend == \E t \in Threads : weightedGetBackend(t)
doWeightedSetWeight == \E t \in Threads : weightedSetWeight(t)
doWeightUnlock == \E t \in Threads : weightUnlock(t)
callRemove == \E t \in Threads : goRemoveBackend(t)
callInvoke == \E t \in Threads : goInvoke(t)
doWeightRLock == \E t \in Threads : weightRLock(t)
doInvokeGetBackends == \E t \in Threads : invokeGetBackends(t)
doInvokeSelect == \E t \in Threads : invokeSelect(t)
doInvokeTotalWeight == \E t \in Threads : invokeTotalWeight(t)
doInvokeWalk == \E t \in Threads : invokeWalk(t)
doWeightRUnlock == \E t \in Threads : weightRUnlock(t)

LBCNext ==
    \/ callAddBackend
    \/ doWeightLock
    \/ doBaseAddBackend
    \/ doWeightedGetBackend
    \/ doWeightedSetWeight
    \/ doWeightUnlock
    \/ callRemove
    \/ callInvoke
    \/ doWeightRLock
    \/ doInvokeGetBackends
    \/ doInvokeSelect
    \/ doInvokeTotalWeight
    \/ doInvokeWalk
    \/ doWeightRUnlock

InitLBC ==
    AppOff /\ LBCInit /\ TBOff /\ PXOff /\ BKOff /\ SubOff /\ RunOff /\ WPOff

SpecLBC == InitLBC /\ [][LBCNext]_vars

(***************************************************************************)
(* Selection strategies: properties.                                       *)
(***************************************************************************)
\* the last n entries of a sequence, as a set
LastN(ps, n) == {ps[i] : i \in (Len(ps) - n + 1)..Len(ps)}

\* C6: with N >= 1 backends under RoundRobin and no AddBackend/RemoveBackend
\* in between, N consecutive Invoke calls return N different backends, that
\* is every backend exactly once.
C6_RoundRobinCyclicCoverage ==
    LET N == Cardinality(DOMAIN backends)
    IN  (impl = "RoundRobin" /\ N >= 1 /\ Len(picks) >= N)
            => LastN(picks, N) = DOMAIN backends

\* backend a has strictly fewer active connections than every other backend
StrictlyFewest(bs, a) ==
    /\ a \in DOMAIN bs
    /\ \A b \in DOMAIN bs \ {a} :
          bs[a].ActiveConnections < bs[b].ActiveConnections

\* C7: an Invoke of either least-connections strategy on a registry in which
\* backend a has strictly fewer active connections than every other backend
\* returns a.
C7_LeastConnPicksStrictMinimum ==
    [][\A a \in LBIds :
          (/\ last'.op = "Invoke"
           /\ impl \in {"LeastConn", "LeastConnections"}
           /\ StrictlyFewest(backends, a))
          => last'.result = a
      ]_vars

\* C7 witness: the wired strategy has just returned the one backend, of at
\* least two, whose count is strictly the smallest.
C7_Witness ==
    /\ impl = "LeastConn"
    /\ last.op = "Invoke"
    /\ Cardinality(DOMAIN backends) >= 2
    /\ \E a \in DOMAIN backends :
          StrictlyFewest(backends, a) /\ last.result = a

\* C8: an Invoke of the strategy built for method "LeastConnections" that
\* returns a backend adds exactly one to that backend's ActiveConnections
\* and changes no other backend's state.
C8_SelectionIncrementsActiveConnections ==
    [][(/\ last'.op = "Invoke"
        /\ impl = New("LeastConnections").impl
        /\ last'.result \in DOMAIN backends)
       => backends' = BaseIncActiveConnections(backends, last'.result)
      ]_vars

\* C9: after every whole 1000-step cycle of WeightedRoundRobin.Invoke calls
\* over a fixed set of backends, each backend's share of the calls differs
\* from weight / totalWeight by at most 0.10:
\* |hits/M - w/T| <= 1/10  as  |hits*T - w*M| * 10 <= M*T.
C9_WeightedShareWithinTenPercent ==
    LET T == AccumWeight(CHOOSE f \in GetBackends(backends) : TRUE, backends,
                         Cardinality(DOMAIN backends))
        M == current
        Dev(b) == hits[b] * T - backends[b].Weight * M
    IN  (impl = "WeightedRoundRobin" /\ hits # <<>> /\ M > 0 /\ M % CycleLen = 0)
            => \A b \in DOMAIN backends :
                   /\ Dev(b) * 10 <= M * T
                   /\ (-Dev(b)) * 10 <= M * T

\* C10: Invoke of any strategy on an empty registry returns no backend (it
\* neither panics nor yields a backend) and leaves the registry empty.
C10_EmptyRegistryYieldsNoBackend ==
    [][(last'.op = "Invoke" /\ DOMAIN backends = {})
       => (last'.result = Nil /\ DOMAIN backends' = {})
      ]_vars

\* C10 witness: Invoke has just been called on an empty registry and
\* returned no backend.
C10_Witness ==
    /\ impl = "RoundRobin"
    /\ last.op = "Invoke"
    /\ DOMAIN backends = {}
    /\ last.result = Nil

\* C26: under every interleaving of concurrent IncActiveConnections and
\* DecActiveConnections calls the count of a registered backend is the number
\* of Inc calls that have returned minus the number of Dec calls that have.
C26_NoLostCounterUpdates ==
    \A id \in DOMAIN backends :
        completed # <<>> =>
            backends[id].ActiveConnections = completed[id].inc - completed[id].dec

\* C26 witness: two goroutines are both between GetBackend and the add, for
\* one backend, after an earlier call on it has returned.
C26_Witness ==
    /\ completed # <<>>
    /\ \E t \in Threads, o \in Threads :
          /\ t # o
          /\ connPc[t] = "AddInt64" /\ connPc[o] = "AddInt64"
          /\ connState[t] = connState[o]
          /\ completed[connState[t]].inc + completed[connState[t]].dec > 0

\* C27: after any sequence of AddBackend, IncActiveConnections and
\* DecActiveConnections no backend's count of active connections is negative.
C27_CountsNeverNegative ==
    \A id \in DOMAIN backends : backends[id].ActiveConnections >= 0

\* C29: RemoveBackend, GetBackend, IncActiveConnections,
\* DecActiveConnections and UpdateResponseTime called with an id the registry
\* does not hold return normally (GetBackend with nil) and leave the set of
\* backends and every backend's counters and weight as they were.
C29_UnknownIdIsNoOp ==
    [][(/\ last'.op \in {"RemoveBackend", "GetBackend", "IncActiveConnections",
                         "DecActiveConnections", "UpdateResponseTime"}
        /\ last'.id \notin DOMAIN backends)
       => (backends' = backends /\ last'.result = Nil)
      ]_vars

\* C29 witness: DecActiveConnections has just been called with an id that
\* is not registered, on a registry that holds another backend.
C29_Witness ==
    /\ last.op = "DecActiveConnections"
    /\ DOMAIN backends # {}
    /\ last.id \notin DOMAIN backends

\* C32: every backend in the snapshot of a WeightedRoundRobin Invoke has a
\* weight > 0 that is its configured weight, or 1 when that is <= 0, also
\* while AddBackend calls run; and the totalWeight of a selection over a
\* non-empty snapshot is > 0 and is the sum of the weights its walk reads.
C32_SnapshotWeightsSet ==
    (impl = "WeightedRoundRobin" /\ lpc # <<>>) =>
        \A t \in Threads :
            /\ lpc[t] \in {"totalWeight", "walk"} =>
                   \A i \in DOMAIN lloc[t].snap :
                       LET b == states[lloc[t].snap[i]]
                       IN  b.Weight > 0 /\ b.Weight = DefaultedWeight(b.cfg)
            /\ lpc[t] = "walk" =>
                   /\ lloc[t].total > 0
                   /\ lloc[t].total =
                          AccumWeight(lloc[t].snap, states, Len(lloc[t].snap))

\* C32 witness: an Invoke is about to walk a snapshot that holds a backend
\* configured with weight 0, while another goroutine waits in AddBackend for
\* the write lock.
C32_Witness ==
    /\ impl = "WeightedRoundRobin"
    /\ \E t \in Threads, o \in Threads :
          /\ lpc[t] = "walk"
          /\ lpc[o] = "Lock"
          /\ \E i \in DOMAIN lloc[t].snap : states[lloc[t].snap[i]].cfg = 0

\* C33: the Invoke that raises the shared counter to c, over a non-empty
\* snapshot, returns the first backend of the snapshot whose accumulated
\* weight is >= (c mod 1000) / 1000 * totalWeight, and there is such a
\* backend: the fallback to the last one is not what decides.
C33_WeightedPicksFirstReachingTarget ==
    (last.op = "WeightedInvoke" /\ Len(last.snap) > 0) =>
        LET snap == last.snap
            totalWeight == AccumWeight(snap, backends, Len(snap))
            Reaches(i) == AccumWeight(snap, backends, i) * CycleLen
                             >= (current % CycleLen) * totalWeight
        IN  \E i \in 1..Len(snap) :
                /\ Reaches(i)
                /\ \A j \in 1..(i - 1) : ~Reaches(j)
                /\ last.result = snap[i]

\* C33 witness: past the first half of a cycle an Invoke has returned the
\* second backend of its snapshot, the first whose accumulated weight is
\* exactly the target.
C33_Witness ==
    /\ last.op = "WeightedInvoke"
    /\ Len(last.snap) >= 2
    /\ last.result = last.snap[2]
    /\ AccumWeight(last.snap, backends, 2) * CycleLen
           = (current % CycleLen) * AccumWeight(last.snap, backends, Len(last.snap))

\* C34: an Invoke of any strategy that runs while AddBackend and
\* RemoveBackend do returns no backend only when its snapshot was empty, and
\* otherwise a backend of its snapshot: one that was registered, as that
\* very state, when GetBackends ran.
C34_InvokeWorksOnItsSnapshot ==
    last.op = "Invoke" =>
        IF last.state = 0
        THEN last.result = Nil /\ DOMAIN last.registered = {}
        ELSE /\ last.result \in DOMAIN last.registered
             /\ last.registered[last.result] = last.state

\* C34 witness: an Invoke has returned a backend that RemoveBackend took
\* out of the registry after the snapshot was made.
C34_Witness ==
    /\ last.op = "Invoke"
    /\ lpc # <<>>
    /\ last.state # 0
    /\ last.result \notin DOMAIN ptrs

(***************************************************************************)
(* TokenBucket: the per-client admission controller, over                  *)
(* golang.org/x/time/rate.  Time is counted in ticks and tokens in         *)
(* fractions of 1/TicksPerSecond, so that rate * elapsed is exact.         *)
(***************************************************************************)
RECURSIVE Product(_)
Product(S) ==
    IF S = {} THEN 1
    ELSE LET x == CHOOSE y \in S : TRUE IN x * Product(S \ {x})

\* the coarsest clock on which 1/rate is a whole number of ticks for every rate
TicksPerSecond ==
    CHOOSE n \in 1..Product(Rates) :
        /\ \A r \in Rates : n % r = 0
        /\ \A m \in 1..(n - 1) : \E r \in Rates : m % r # 0

\* one token, in the unit of the field tokens
Token == TicksPerSecond

Min(a, b) == IF a < b THEN a ELSE b

\* rate.NewLimiter(limit, burst), called at time t: a full bucket
NewLimiter(r, b, t) ==
    [limit |-> r, burst |-> b, tokens |-> b * Token, last |-> t]

\* Limiter.advance: the tokens at time t; the limiter is not written
advance(lim, t) ==
    Min(lim.burst * Token, lim.tokens + (t - lim.last) * lim.limit)

\* rate.InfDuration, the maxFutureReserve of Reserve and Wait
InfDuration == -1

\* Limiter.reserveN(t, 1, maxFutureReserve) that keeps the state when refused
reserveNSpendsAlways(lim, t, maxFutureReserve) ==
    LET tokens == advance(lim, t) - Token
        waitDuration == IF tokens < 0 THEN (-tokens) \div lim.limit ELSE 0
        ok == /\ 1 <= lim.burst
              /\ maxFutureReserve = InfDuration \/ waitDuration <= maxFutureReserve
    IN  [ok |-> ok,
         delay |-> IF ok THEN waitDuration ELSE InfDuration,
         lim |-> [lim EXCEPT !.last = t, !.tokens = tokens]]

\* Limiter.reserveN(t, 1, maxFutureReserve): take one token, possibly ahead
\* of its time; refused when the wait would exceed maxFutureReserve
reserveN(lim, t, maxFutureReserve) ==
    LET tokens == advance(lim, t) - Token
        waitDuration == IF tokens < 0 THEN (-tokens) \div lim.limit ELSE 0
        ok == /\ 1 <= lim.burst
              /\ maxFutureReserve = InfDuration \/ waitDuration <= maxFutureReserve
    IN  [ok |-> ok,
         delay |-> IF ok THEN waitDuration ELSE InfDuration,
         lim |-> IF ok THEN [lim EXCEPT !.last = t, !.tokens = tokens] ELSE lim]

\* Limiter.Allow() == AllowN(time.Now(), 1) == reserveN(now, 1, 0).ok
LimiterAllow(lim, t) == reserveN(lim, t, 0)

\* Reserve that refuses what Allow refuses
LimiterReserveNoDebt(lim, t) == reserveN(lim, t, 0)

\* Limiter.Reserve().Delay() == reserveN(now, 1, InfDuration), then Delay()
LimiterReserve(lim, t) == reserveN(lim, t, InfDuration)

\* Limiter.Wait(ctx): wait() reads ctx.Done() before it reserves; on a nil
\* context.Context that is a nil-interface method call, which panics
LimiterWait(lim, ctx, t) ==
    IF ctx = Nil
    THEN [panic |-> TRUE, delay |-> 0, lim |-> lim]
    ELSE LET r == reserveN(lim, t, InfDuration)
         IN  [panic |-> FALSE, delay |-> r.delay, lim |-> r.lim]

\* TokenBucket.GetUserLimits: the override, or a fresh copy of the default
GetUserLimits(ul, u) ==
    IF ul[u] # NoLimits THEN ul[u]
    ELSE [Rate |-> defaultRate, Burst |-> defaultBurst]

\* the limiter objects something still points to
Live(lm, tl) == ({lm[u] : u \in DOMAIN lm} \cup {tl[t] : t \in Threads}) \ {NoRef}

\* a new object: the first slot nothing points to
Alloc(lm, tl) ==
    CHOOSE i \in Slots :
        /\ i \notin Live(lm, tl)
        /\ \A j \in Slots : j < i => j \in Live(lm, tl)

\* the garbage collector: objects nothing points to are gone
Collect(hp, lm, tl) ==
    [i \in Slots |-> IF i \in Live(lm, tl) THEN hp[i] ELSE NoLimiter]

\* tb.limiters.Store(u, lim) for a newly made limiter lim; the entry it
\* replaces is garbage unless a goroutine still holds it
StoreLimiter(lm, hp, tl, u, lim) ==
    LET i == Alloc([lm EXCEPT ![u] = NoRef], tl)
    IN  [limiters |-> [lm EXCEPT ![u] = i],
         heap |-> [hp EXCEPT ![i] = lim],
         ref |-> i,
         made |-> TRUE]

\* TokenBucket.getLimiter: Load, and on a miss NewLimiter from the limits
\* in effect, then Store
getLimiter(lm, hp, ul, tl, u, t) ==
    IF lm[u] # NoRef
    THEN [limiters |-> lm, heap |-> hp, ref |-> lm[u], made |-> FALSE]
    ELSE LET limits == GetUserLimits(ul, u)
         IN  StoreLimiter(lm, hp, tl, u, NewLimiter(limits.Rate, limits.Burst, t))

\* SetUserLimits that stores the limits and keeps the client's limiter
SetUserLimitsKeepsLimiter(ul, lm, hp, tl, u, myrate, burst, t) ==
    [userLimits |-> [ul EXCEPT ![u] = [Rate |-> myrate, Burst |-> burst]],
     limiters |-> lm,
     heap |-> hp]

\* TokenBucket.SetUserLimits: store the override and a new limiter
SetUserLimits(ul, lm, hp, tl, u, myrate, burst, t) ==
    LET st == StoreLimiter(lm, hp, tl, u, NewLimiter(myrate, burst, t))
    IN  [userLimits |-> [ul EXCEPT ![u] = [Rate |-> myrate, Burst |-> burst]],
         limiters |-> st.limiters,
         heap |-> st.heap]

\* DeleteUserLimits that forgets to delete the override
DeleteUserLimitsKeepsOverride(ul, lm, hp, u) ==
    [userLimits |-> ul,
     limiters |-> [lm EXCEPT ![u] = NoRef],
     heap |-> hp]

\* TokenBucket.DeleteUserLimits: delete the override and the limiter
DeleteUserLimits(ul, lm, hp, u) ==
    [userLimits |-> [ul EXCEPT ![u] = NoLimits],
     limiters |-> [lm EXCEPT ![u] = NoRef],
     heap |-> hp]

\* the mutators updateFn: a field of 0 is a field the function leaves alone
Mutators == [Rate : {0} \cup Rates, Burst : {0} \cup Bursts]

\* updateFn(limits)
updateFn(f, limits) ==
    [Rate |-> IF f.Rate # 0 THEN f.Rate ELSE limits.Rate,
     Burst |-> IF f.Burst # 0 THEN f.Burst ELSE limits.Burst]

\* UpdateUserLimits that starts from the default instead of the current limits
UpdateUserLimitsFromDefault(ul, lm, hp, tl, u, f, t) ==
    LET limits == updateFn(f, [Rate |-> defaultRate, Burst |-> defaultBurst])
        st == StoreLimiter(lm, hp, tl, u, NewLimiter(limits.Rate, limits.Burst, t))
    IN  [userLimits |-> [ul EXCEPT ![u] = limits],
         limiters |-> st.limiters,
         heap |-> st.heap]

\* TokenBucket.UpdateUserLimits: GetUserLimits, updateFn, store the result
\* and a new limiter
UpdateUserLimits(ul, lm, hp, tl, u, f, t) ==
    LET limits == updateFn(f, GetUserLimits(ul, u))
        st == StoreLimiter(lm, hp, tl, u, NewLimiter(limits.Rate, limits.Burst, t))
    IN  [userLimits |-> [ul EXCEPT ![u] = limits],
         limiters |-> st.limiters,
         heap |-> st.heap]

(***************************************************************************)
(* TokenBucket called by one goroutine: every call runs to its end.        *)
(***************************************************************************)
\* the goroutine-local state, used by the concurrent runs only
thrVars == <<mu, tpc, tcall, tlim, tlimits, tdone, granted>>

\* immediate calls on one limiter that the history counts
MaxCalls == MaxBurst + 2

\* history of a client's current limiter: the call that made it (origin) and
\* when (born), whether the limiter it replaced had given out a token (prior),
\* and the n calls of kind op made on it so far, all at time born
NoCalls == [origin |-> "none", born |-> 0, prior |-> FALSE, op |-> "none", n |-> 0]

\* a history that is not followed any further
Dropped == [origin |-> "dropped", born |-> 0, prior |-> FALSE, op |-> "none", n |-> 0]

\* the tokens a client can see at time t: those of its limiter or, without
\* one, the full burst that getLimiter would start it with
TokensOf(ul, lm, hp, u, t) ==
    IF lm[u] # NoRef THEN advance(hp[lm[u]], t)
    ELSE GetUserLimits(ul, u).Burst * Token

\* history of a client whose limiter was just made by the call named how
Reborn(how, t, spent) ==
    [origin |-> how, born |-> t, prior |-> spent, op |-> "none", n |-> 0]

\* history after getLimiter result g and then one call of kind op; an Allow
\* at a later time, after the immediate ones, is marked and ends the history
Logged(c, g, t, op) ==
    LET c1 == IF g.made THEN Reborn("lazy", t, FALSE) ELSE c
    IN  IF /\ c1.origin # "dropped"
           /\ t = c1.born
           /\ c1.n = 0 \/ c1.op = op
           /\ c1.n < MaxCalls
        THEN [c1 EXCEPT !.op = op, !.n = @ + 1]
        ELSE IF c1.op = "Allow" /\ op = "Allow" /\ t > c1.born
        THEN [c1 EXCEPT !.op = "AllowLate"]
        ELSE Dropped

\* history when time passes: followed further only after exactly burst + 1
\* immediate Allow calls
Aged(c, burst) ==
    IF c.op = "Allow" /\ c.n = burst + 1 THEN c ELSE Dropped

\* the run without overrides: a bucket with the default limits, on which only
\* the Allow calls act; ok: the client's calls so far are Allow calls and
\* pairs of SetUserLimits, DeleteUserLimits; pending: a pair is open;
\* override: "never" set, "set", or "deleted" by the last administrative call
RefDead(r) ==
    [lim |-> NoLimiter, ok |-> FALSE, pending |-> FALSE, override |-> r.override]

RefAllow(r, t) ==
    IF r.ok /\ ~r.pending THEN [r EXCEPT !.lim = LimiterAllow(r.lim, t).lim]
    ELSE RefDead(r)

RefSet(r) ==
    IF r.ok /\ ~r.pending THEN [r EXCEPT !.pending = TRUE, !.override = "set"]
    ELSE [RefDead(r) EXCEPT !.override = "set"]

RefDelete(r) ==
    IF r.ok /\ r.pending THEN [r EXCEPT !.pending = FALSE, !.override = "deleted"]
    ELSE [RefDead(r) EXCEPT !.override = "deleted"]

Out(op, u, result) == [op |-> op, user |-> u, result |-> result, panic |-> FALSE]

\* an unrecovered panic ends the process
Running == tbLast.op # "none" /\ ~tbLast.panic

\* NewTokenBucket(defaultRate, defaultBurst)
TBInit ==
    /\ defaultRate \in Rates
    /\ defaultBurst \in Bursts
    /\ userLimits = [u \in Users |-> NoLimits]
    /\ limiters = [u \in Users |-> NoRef]
    /\ heap = [i \in Slots |-> NoLimiter]
    /\ now = 0
    /\ mu = 0
    /\ tbLast = Out("NewTokenBucket", "", 0)
    /\ calls = [u \in Users |-> NoCalls]
    /\ ref = [u \in Users |->
                 [lim |-> NewLimiter(defaultRate, defaultBurst, 0),
                  ok |-> TRUE, pending |-> FALSE, override |-> "never"]]
    /\ tpc = [t \in Threads |-> "idle"]
    /\ tcall = [t \in Threads |-> [op |-> "none"]]
    /\ tlim = [t \in Threads |-> NoRef]
    /\ tlimits = [t \in Threads |-> NoLimits]
    /\ tdone = [t \in Threads |-> 0]
    /\ granted = [n |-> 0, pure |-> TRUE]

\* tb.Allow(u)
Allow ==
    \E u \in Users :
        LET g == getLimiter(limiters, heap, userLimits, tlim, u, now)
            r == LimiterAllow(g.heap[g.ref], now)
        IN  /\ Running
            /\ limiters' = g.limiters
            /\ heap' = Collect([g.heap EXCEPT ![g.ref] = r.lim], g.limiters, tlim)
            /\ tbLast' = Out("Allow", u, r.ok)
            /\ calls' = [calls EXCEPT ![u] = Logged(@, g, now, "Allow")]
            /\ ref' = [ref EXCEPT ![u] = RefAllow(@, now)]
            /\ UNCHANGED <<defaultRate, defaultBurst, userLimits, now>>
            /\ UNCHANGED thrVars
            /\ UNCHANGED tbFrame

\* tb.Reserve(u)
Reserve ==
    \E u \in Users :
        LET g == getLimiter(limiters, heap, userLimits, tlim, u, now)
            r == LimiterReserve(g.heap[g.ref], now)
        IN  /\ Running
            /\ r.lim.tokens >= -(MaxDebt * Token)
            /\ limiters' = g.limiters
            /\ heap' = Collect([g.heap EXCEPT ![g.ref] = r.lim], g.limiters, tlim)
            /\ tbLast' = Out("Reserve", u, r.delay)
            /\ calls' = [calls EXCEPT ![u] = Logged(@, g, now, "Reserve")]
            /\ ref' = [ref EXCEPT ![u] = RefDead(@)]
            /\ UNCHANGED <<defaultRate, defaultBurst, userLimits, now>>
            /\ UNCHANGED thrVars
            /\ UNCHANGED tbFrame

\* tb.Wait(u): getLimiter, then limiter.Wait(nil)
Wait ==
    \E u \in Users :
        LET g == getLimiter(limiters, heap, userLimits, tlim, u, now)
            r == LimiterWait(g.heap[g.ref], Nil, now)
        IN  /\ Running
            /\ limiters' = g.limiters
            /\ heap' = Collect([g.heap EXCEPT ![g.ref] = r.lim], g.limiters, tlim)
            /\ tbLast' = [op |-> "Wait", user |-> u, result |-> r.delay,
                          panic |-> r.panic]
            /\ calls' = [calls EXCEPT ![u] = Logged(@, g, now, "Wait")]
            /\ ref' = [ref EXCEPT ![u] = RefDead(@)]
            /\ now' = now + r.delay
            /\ UNCHANGED <<defaultRate, defaultBurst, userLimits>>
            /\ UNCHANGED thrVars
            /\ UNCHANGED tbFrame

\* tb.GetTokens(u): getLimiter, then limiter.Tokens()
GetTokens ==
    \E u \in Users :
        LET g == getLimiter(limiters, heap, userLimits, tlim, u, now)
        IN  /\ Running
            /\ limiters' = g.limiters
            /\ heap' = Collect(g.heap, g.limiters, tlim)
            /\ tbLast' = Out("GetTokens", u, advance(g.heap[g.ref], now))
            /\ calls' = [calls EXCEPT ![u] =
                            IF g.made THEN Reborn("lazy", now, FALSE) ELSE @]
            /\ UNCHANGED <<defaultRate, defaultBurst, userLimits, now, ref>>
            /\ UNCHANGED thrVars
            /\ UNCHANGED tbFrame

\* tb.GetUserLimits(u)
GetUserLimitsCall ==
    \E u \in Users :
        /\ Running
        /\ tbLast' = Out("GetUserLimits", u, GetUserLimits(userLimits, u))
        /\ UNCHANGED <<defaultRate, defaultBurst, userLimits, limiters, heap,
                       now, calls, ref>>
        /\ UNCHANGED thrVars
        /\ UNCHANGED tbFrame

\* tb.SetUserLimits(u, myrate, burst)
SetUserLimitsCall ==
    \E u \in Users, myrate \in Rates, burst \in Bursts :
        LET s == SetUserLimits(userLimits, limiters, heap, tlim, u, myrate, burst, now)
        IN  /\ Running
            /\ userLimits' = s.userLimits
            /\ limiters' = s.limiters
            /\ heap' = Collect(s.heap, s.limiters, tlim)
            /\ tbLast' = Out("SetUserLimits", u, [Rate |-> myrate, Burst |-> burst])
            /\ calls' = [calls EXCEPT ![u] =
                            Reborn("SetUserLimits", now,
                                   TokensOf(userLimits, limiters, heap, u, now)
                                       < GetUserLimits(userLimits, u).Burst * Token)]
            /\ ref' = [ref EXCEPT ![u] = RefSet(@)]
            /\ UNCHANGED <<defaultRate, defaultBurst, now>>
            /\ UNCHANGED thrVars
            /\ UNCHANGED tbFrame

\* tb.UpdateUserLimits(u, updateFn)
UpdateUserLimitsCall ==
    \E u \in Users, f \in Mutators :
        LET s == UpdateUserLimits(userLimits, limiters, heap, tlim, u, f, now)
        IN  /\ Running
            /\ userLimits' = s.userLimits
            /\ limiters' = s.limiters
            /\ heap' = Collect(s.heap, s.limiters, tlim)
            /\ tbLast' = Out("UpdateUserLimits", u, f)
            /\ calls' = [calls EXCEPT ![u] =
                            Reborn("UpdateUserLimits", now,
                                   TokensOf(userLimits, limiters, heap, u, now)
                                       < GetUserLimits(userLimits, u).Burst * Token)]
            /\ ref' = [ref EXCEPT ![u] = [RefDead(@) EXCEPT !.override = "set"]]
            /\ UNCHANGED <<defaultRate, defaultBurst, now>>
            /\ UNCHANGED thrVars
            /\ UNCHANGED tbFrame

\* tb.DeleteUserLimits(u)
DeleteUserLimitsCall ==
    \E u \in Users :
        LET s == DeleteUserLimits(userLimits, limiters, heap, u)
        IN  /\ Running
            /\ userLimits' = s.userLimits
            /\ limiters' = s.limiters
            /\ heap' = Collect(s.heap, s.limiters, tlim)
            /\ tbLast' = Out("DeleteUserLimits", u, userLimits[u] # NoLimits)
            /\ calls' = [calls EXCEPT ![u] = NoCalls]
            /\ ref' = [ref EXCEPT ![u] = RefDelete(@)]
            /\ UNCHANGED <<defaultRate, defaultBurst, now>>
            /\ UNCHANGED thrVars
            /\ UNCHANGED tbFrame

\* time passes
Tick ==
    /\ Running
    /\ now < MaxTime
    /\ now' = now + 1
    /\ tbLast' = Out("Tick", "", 0)
    /\ calls' = [u \in Users |-> Aged(calls[u], GetUserLimits(userLimits, u).Burst)]
    /\ UNCHANGED <<defaultRate, defaultBurst, userLimits, limiters, heap, ref>>
    /\ UNCHANGED thrVars
    /\ UNCHANGED tbFrame

TBNext ==
    \/ Allow
    \/ Reserve
    \/ Wait
    \/ GetTokens
    \/ GetUserLimitsCall
    \/ SetUserLimitsCall
    \/ UpdateUserLimitsCall
    \/ DeleteUserLimitsCall
    \/ Tick

InitTB == AppOff /\ LBOff /\ TBInit /\ PXOff /\ MoreOff

SpecTB == InitTB /\ [][TBNext]_vars

(***************************************************************************)
(* The administrative API of the Proxy (/ratelimit/{userID}) over the       *)
(* TokenBucket: each handler runs to its end.                               *)
(***************************************************************************)
\* the UserRateLimit a POST or PUT body decodes to
Bodies == [Rate : {-1, 0} \cup Rates, Burst : {-1, 0} \cup Bursts]

\* a validation that lets every body through
validLimitsAlways(body) == TRUE

\* the negation of "limits.Rate <= 0 || limits.Burst <= 0"
validLimits(body) == ~(body.Rate <= 0 \/ body.Burst <= 0)

\* existing := p.ratelimit.GetUserLimits(userID): the stored override or a
\* pointer to a fresh copy of the default, and so never nil
existingLimits(ul, u) == [isNil |-> FALSE, limits |-> GetUserLimits(ul, u)]

\* http.Error(w, ..., status) / w.WriteHeader(status) of a handler of the API
Respond(handler, u, status, body) ==
    [op |-> handler, user |-> u, result |-> [status |-> status, body |-> body],
     panic |-> FALSE]

\* a handler that answers without a call that writes the TokenBucket
Rejected(handler, u, status, body) ==
    /\ tbLast' = Respond(handler, u, status, body)
    /\ UNCHANGED <<defaultRate, defaultBurst, userLimits, limiters, heap, now,
                   calls, ref>>

\* a handler that answers after a call that left the TokenBucket as s
Written(handler, u, status, body, s) ==
    /\ tbLast' = Respond(handler, u, status, body)
    /\ userLimits' = s.userLimits
    /\ limiters' = s.limiters
    /\ heap' = Collect(s.heap, s.limiters, tlim)
    /\ calls' = [calls EXCEPT ![u] = Dropped]
    /\ ref' = [ref EXCEPT ![u] = RefDead(@)]
    /\ UNCHANGED <<defaultRate, defaultBurst, now>>

\* POST /ratelimit/{u}
createRateLimit ==
    \E u \in Users, body \in Bodies :
        /\ Running
        /\ IF ~validLimits(body)
           THEN Rejected("createRateLimit", u, 400, body)
           ELSE IF ~existingLimits(userLimits, u).isNil
           THEN Rejected("createRateLimit", u, 409, body)
           ELSE Written("createRateLimit", u, 201, body,
                        SetUserLimits(userLimits, limiters, heap, tlim, u,
                                      body.Rate, body.Burst, now))
        /\ UNCHANGED thrVars
        /\ UNCHANGED tbFrame

\* PUT /ratelimit/{u}; the mutator handed to UpdateUserLimits writes both
\* fields of the body, which are not 0 once the body is valid
updateRateLimit ==
    \E u \in Users, body \in Bodies :
        /\ Running
        /\ IF ~validLimits(body)
           THEN Rejected("updateRateLimit", u, 400, body)
           ELSE IF existingLimits(userLimits, u).isNil
           THEN Rejected("updateRateLimit", u, 404, body)
           ELSE Written("updateRateLimit", u, 200, body,
                        UpdateUserLimits(userLimits, limiters, heap, tlim, u,
                                         body, now))
        /\ UNCHANGED thrVars
        /\ UNCHANGED tbFrame

\* DELETE /ratelimit/{u}
deleteRateLimit ==
    \E u \in Users :
        /\ Running
        /\ IF existingLimits(userLimits, u).isNil
           THEN Rejected("deleteRateLimit", u, 404, NoLimits)
           ELSE Written("deleteRateLimit", u, 204, NoLimits,
                        DeleteUserLimits(userLimits, limiters, heap, u))
        /\ UNCHANGED thrVars
        /\ UNCHANGED tbFrame

\* the API, and the calls it rests on made directly
AdminNext ==
    \/ SetUserLimitsCall
    \/ UpdateUserLimitsCall
    \/ DeleteUserLimitsCall
    \/ createRateLimit
    \/ updateRateLimit
    \/ deleteRateLimit

InitAdmin == AppOff /\ LBOff /\ TBInit /\ PXOff /\ MoreOff

SpecAdmin == InitAdmin /\ [][AdminNext]_vars

(***************************************************************************)
(* Proxy.handleRequest over a TokenBucket, a selection strategy and the     *)
(* backends: a handler runs from its start to client.Do inside              *)
(* Backend.Handle, and from the return of client.Do to its end.             *)
(***************************************************************************)
\* proxied requests whose handlers the model lets start
MaxRequests == 2

\* TCP source ports of the connections of one client address
Ports == {"1001", "1002"}

\* the remote end of a connection: the client's address and its source port
Conns == [host : Users, port : Ports]

\* r.RemoteAddr, the "IP:port" string net/http sets on the request
RemoteAddr(c) == c.host \o ":" \o c.port

\* the keys the maps of the Proxy's TokenBucket are read and written under
Keys == Users \cup {RemoteAddr(c) : c \in Conns}

\* no request in a slot of rq
NoRequest == [conn |-> [host |-> "", port |-> ""], backend |-> Nil]

\* http.StatusTooManyRequests, StatusServiceUnavailable,
\* StatusInternalServerError, StatusBadGateway
Status(outcome) ==
    CASE outcome = "TooManyRequests"     -> 429
      [] outcome = "ServiceUnavailable"  -> 503
      [] outcome = "InternalServerError" -> 500
      [] outcome = "BadGateway"          -> 502

\* a handler that asks the strategy before the rate limiter
upToHandleSelectsFirst(allowed, selected, built) ==
    IF selected = Nil
    THEN [outcome |-> "ServiceUnavailable", invoked |-> TRUE]
    ELSE IF ~allowed
    THEN [outcome |-> "TooManyRequests", invoked |-> TRUE]
    ELSE IF ~built
    THEN [outcome |-> "InternalServerError", invoked |-> TRUE]
    ELSE [outcome |-> "forward", invoked |-> TRUE]

\* handleRequest up to backend.Handle: the response it ends with, or
\* "forward", and whether it got as far as p.loadbalancer.Invoke; allowed is
\* the result of Allow, selected that of Invoke, built tells that
\* http.NewRequestWithContext accepted backend.URL() + r.URL.Path
upToHandle(allowed, selected, built) ==
    IF ~allowed
    THEN [outcome |-> "TooManyRequests", invoked |-> FALSE]
    ELSE IF selected = Nil
    THEN [outcome |-> "ServiceUnavailable", invoked |-> TRUE]
    ELSE IF ~built
    THEN [outcome |-> "InternalServerError", invoked |-> TRUE]
    ELSE [outcome |-> "forward", invoked |-> TRUE]

\* BaseBackend.Handle: atomic.AddInt64(&b.stats.ActiveConnections, 1) and
\* the deferred atomic.AddInt64(&b.stats.ActiveConnections, -1)
HandleEnter(st, id) == [st EXCEPT ![id] = @ + 1]
HandleReturn(st, id) == [st EXCEPT ![id] = @ - 1]

\* NewTokenBucket, a strategy with its backends added, NewProxy
ProxyInit ==
    /\ defaultRate \in Rates
    /\ defaultBurst \in Bursts
    /\ userLimits = [k \in Keys |-> NoLimits]
    /\ limiters = [k \in Keys |-> NoRef]
    /\ heap = [i \in Slots |-> NoLimiter]
    /\ now = 0
    /\ mu = 0
    /\ tbLast = Out("NewTokenBucket", "", 0)
    /\ calls = [u \in Users |-> Dropped]
    /\ ref = [u \in Users |-> RefDead([override |-> "never"])]
    /\ tpc = [t \in Threads |-> "idle"]
    /\ tcall = [t \in Threads |-> [op |-> "none"]]
    /\ tlim = [t \in Threads |-> NoRef]
    /\ tlimits = [t \in Threads |-> NoLimits]
    /\ tdone = [t \in Threads |-> 0]
    /\ granted = [n |-> 0, pure |-> FALSE]
    /\ impl \in Impls
    /\ \E ids \in Registries : backends = Registered(impl, ids)
    /\ current = 0
    /\ last = [op |-> "New", result |-> Nil]
    /\ picks = <<>>
    /\ hits = <<>>
    /\ connPc = <<>>
    /\ connCall = <<>>
    /\ connState = <<>>
    /\ completed = <<>>
    /\ rq = [i \in 1..MaxInFlight |-> NoRequest]
    /\ bstats = [id \in LBIds |-> 0]
    /\ resp = [handler |-> "none"]
    /\ served = 0

\* what handleRequest and Backend.Handle leave alone
proxyFrame ==
    <<appVars, impl, picks, hits, defaultRate, defaultBurst, userLimits, now,
      tbLast, calls, ref, thrVars, connPc, connCall, connState, completed,
      moreVars>>

\* handleRequest from its start to a response or to client.Do
handleRequest ==
    \E c \in Conns, built \in BOOLEAN, snap \in GetBackends(backends),
       i \in DOMAIN rq :
        LET key == RemoteAddr(c)
            g == getLimiter(limiters, heap, userLimits, tlim, key, now)
            allow == LimiterAllow(g.heap[g.ref], now)
            inv == Invoke(impl, snap, current, backends)
            d == upToHandle(allow.ok, inv.result, built)
        IN  /\ served < MaxRequests
            /\ rq[i] = NoRequest
            /\ \A j \in DOMAIN rq : j < i => rq[j] # NoRequest
            /\ limiters' = g.limiters
            /\ heap' = Collect([g.heap EXCEPT ![g.ref] = allow.lim],
                               g.limiters, tlim)
            /\ IF d.invoked
               THEN /\ backends' = inv.backends
                    /\ current' = inv.current
                    /\ last' = [op |-> "Invoke", result |-> inv.result]
               ELSE UNCHANGED <<backends, current, last>>
            /\ IF d.outcome = "forward"
               THEN /\ rq' = [rq EXCEPT ![i] = [conn |-> c, backend |-> inv.result]]
                    /\ bstats' = HandleEnter(bstats, inv.result)
               ELSE UNCHANGED <<rq, bstats>>
            /\ resp' = [handler |-> "handleRequest", conn |-> c, key |-> key,
                        allowed |-> allow.ok,
                        selected |-> IF d.invoked THEN inv.result ELSE Nil,
                        built |-> d.outcome = "forward",
                        err |-> FALSE,
                        outcome |-> d.outcome]
            /\ served' = served + 1
            /\ UNCHANGED proxyFrame

\* client.Do returns inside Backend.Handle, with a response or with an
\* error; the handler answers 502 or relays the response
backendResponds ==
    \E i \in DOMAIN rq, err \in BOOLEAN :
        /\ rq[i] # NoRequest
        /\ bstats' = HandleReturn(bstats, rq[i].backend)
        /\ rq' = [rq EXCEPT ![i] = NoRequest]
        /\ resp' = [handler |-> "handleRequest", conn |-> rq[i].conn,
                    key |-> RemoteAddr(rq[i].conn),
                    allowed |-> TRUE,
                    selected |-> rq[i].backend,
                    built |-> TRUE,
                    err |-> err,
                    outcome |-> IF err THEN "BadGateway" ELSE "Relayed"]
        /\ UNCHANGED <<limiters, heap, backends, current, last, served>>
        /\ UNCHANGED proxyFrame

\* the handler behind the pattern "/" of the mux
ProxyNext ==
    \/ handleRequest
    \/ backendResponds

InitProxy == AppOff /\ ProxyInit /\ MoreOff

SpecProxy == InitProxy /\ [][ProxyNext]_vars

\* the handlers behind "/" and behind "/ratelimit/"; update is the one
\* request of the API that stores an override
ProxyAdminNext ==
    \/ handleRequest
    \/ backendResponds
    \/ updateRateLimit

\* the Proxy of a configuration with method RoundRobin
InitProxyAdmin ==
    AppOff /\ ProxyInit /\ impl = New("RoundRobin").impl /\ MoreOff

SpecProxyAdmin == InitProxyAdmin /\ [][ProxyAdminNext]_vars

(***************************************************************************)
(* TokenBucket called by several goroutines: a call is a sequence of steps, *)
(* one per operation on tb.mu, on a sync.Map or on a rate.Limiter.          *)
(***************************************************************************)
\* the history variables of the one-goroutine runs
seqVars == <<now, tbLast, calls, ref>>

\* tb.mu.Lock() that does not wait for the holder
muAlwaysFree(m) == TRUE

\* tb.mu.Lock() goes through when nobody holds the mutex
muFree(m) == m = 0

\* a goroutine returns from its call
Return(t) ==
    /\ tpc' = [tpc EXCEPT ![t] = "idle"]
    /\ tcall' = [tcall EXCEPT ![t] = [op |-> "none"]]
    /\ tlimits' = [tlimits EXCEPT ![t] = NoLimits]
    /\ tdone' = [tdone EXCEPT ![t] = @ + 1]

\* a goroutine calls tb.Allow(u)
goAllow(t) ==
    \E u \in Users :
        /\ tpc[t] = "idle"
        /\ tdone[t] < MaxOps
        /\ tpc' = [tpc EXCEPT ![t] = "load"]
        /\ tcall' = [tcall EXCEPT ![t] = [op |-> "Allow", user |-> u]]
        /\ UNCHANGED <<defaultRate, defaultBurst, userLimits, limiters, heap, mu,
                       tlim, tlimits, tdone, granted>>
        /\ UNCHANGED seqVars
        /\ UNCHANGED tbFrame

\* getLimiter: tb.limiters.Load(userID)
getLimiterLoad(t) ==
    /\ tpc[t] = "load"
    /\ tlim' = [tlim EXCEPT ![t] = limiters[tcall[t].user]]
    /\ tpc' = [tpc EXCEPT ![t] = IF limiters[tcall[t].user] # NoRef
                                 THEN "allow" ELSE "limits"]
    /\ heap' = Collect(heap, limiters, tlim')
    /\ UNCHANGED <<defaultRate, defaultBurst, userLimits, limiters, mu, tcall,
                   tlimits, tdone, granted>>
    /\ UNCHANGED seqVars
    /\ UNCHANGED tbFrame

\* getLimiter: limits := tb.GetUserLimits(userID)
getLimiterLimits(t) ==
    /\ tpc[t] = "limits"
    /\ tlimits' = [tlimits EXCEPT ![t] = GetUserLimits(userLimits, tcall[t].user)]
    /\ tpc' = [tpc EXCEPT ![t] = "store"]
    /\ UNCHANGED <<defaultRate, defaultBurst, userLimits, limiters, heap, mu,
                   tcall, tlim, tdone, granted>>
    /\ UNCHANGED seqVars
    /\ UNCHANGED tbFrame

\* getLimiter: rate.NewLimiter(...), tb.limiters.Store(userID, limiter)
getLimiterStore(t) ==
    LET st == StoreLimiter(limiters, heap, tlim, tcall[t].user,
                           NewLimiter(tlimits[t].Rate, tlimits[t].Burst, now))
    IN  /\ tpc[t] = "store"
        /\ limiters' = st.limiters
        /\ tlim' = [tlim EXCEPT ![t] = st.ref]
        /\ heap' = Collect(st.heap, st.limiters, tlim')
        /\ tpc' = [tpc EXCEPT ![t] = "allow"]
        /\ UNCHANGED <<defaultRate, defaultBurst, userLimits, mu, tcall,
                       tlimits, tdone, granted>>
        /\ UNCHANGED seqVars
        /\ UNCHANGED tbFrame

\* Allow: limiter.Allow() on the limiter getLimiter returned
limiterAllow(t) ==
    LET r == LimiterAllow(heap[tlim[t]], now)
    IN  /\ tpc[t] = "allow"
        /\ tlim' = [tlim EXCEPT ![t] = NoRef]
        /\ heap' = Collect([heap EXCEPT ![tlim[t]] = r.lim], limiters, tlim')
        /\ granted' = IF r.ok /\ granted.pure
                      THEN [granted EXCEPT !.n = @ + 1] ELSE granted
        /\ Return(t)
        /\ UNCHANGED <<defaultRate, defaultBurst, userLimits, limiters, mu>>
        /\ UNCHANGED seqVars
        /\ UNCHANGED tbFrame

\* a goroutine calls SetUserLimits, DeleteUserLimits or UpdateUserLimits
goAdmin(t) ==
    \E c \in [op : {"SetUserLimits"}, user : Users, Rate : Rates, Burst : Bursts]
             \cup [op : {"DeleteUserLimits"}, user : Users]
             \cup [op : {"UpdateUserLimits"}, user : Users, f : Mutators] :
        /\ tpc[t] = "idle"
        /\ tdone[t] < MaxOps
        /\ tpc' = [tpc EXCEPT ![t] = "lock"]
        /\ tcall' = [tcall EXCEPT ![t] = c]
        /\ granted' = [n |-> 0, pure |-> FALSE]
        /\ UNCHANGED <<defaultRate, defaultBurst, userLimits, limiters, heap, mu,
                       tlim, tlimits, tdone>>
        /\ UNCHANGED seqVars
        /\ UNCHANGED tbFrame

\* tb.mu.Lock() of the three administrative calls
muLock(t) ==
    /\ tpc[t] = "lock"
    /\ muFree(mu)
    /\ mu' = t
    /\ tpc' = [tpc EXCEPT ![t] = IF tcall[t].op = "UpdateUserLimits"
                                 THEN "updateFn" ELSE "limitsMap"]
    /\ UNCHANGED <<defaultRate, defaultBurst, userLimits, limiters, heap,
                   tcall, tlim, tlimits, tdone, granted>>
    /\ UNCHANGED seqVars
    /\ UNCHANGED tbFrame

\* UpdateUserLimits: limits := tb.GetUserLimits(userID); updateFn(limits).
\* With an override, limits points to the stored UserLimits and updateFn
\* writes it in place; without one it is a copy of the default.
updateFnStep(t) ==
    LET u == tcall[t].user
        limits == updateFn(tcall[t].f, GetUserLimits(userLimits, u))
    IN  /\ tpc[t] = "updateFn"
        /\ tlimits' = [tlimits EXCEPT ![t] = limits]
        /\ userLimits' = IF userLimits[u] # NoLimits
                         THEN [userLimits EXCEPT ![u] = limits] ELSE userLimits
        /\ tpc' = [tpc EXCEPT ![t] = "limitsMap"]
        /\ UNCHANGED <<defaultRate, defaultBurst, limiters, heap, mu, tcall,
                       tlim, tdone, granted>>
        /\ UNCHANGED seqVars
        /\ UNCHANGED tbFrame

\* tb.userLimits.Store(userID, ...) of SetUserLimits and UpdateUserLimits,
\* tb.userLimits.Delete(userID) of DeleteUserLimits
limitsMapStep(t) ==
    LET u == tcall[t].user
    IN  /\ tpc[t] = "limitsMap"
        /\ userLimits' =
               [userLimits EXCEPT ![u] =
                   CASE tcall[t].op = "SetUserLimits" ->
                            [Rate |-> tcall[t].Rate, Burst |-> tcall[t].Burst]
                     [] tcall[t].op = "UpdateUserLimits" -> tlimits[t]
                     [] tcall[t].op = "DeleteUserLimits" -> NoLimits]
        /\ tpc' = [tpc EXCEPT ![t] = "limitersMap"]
        /\ UNCHANGED <<defaultRate, defaultBurst, limiters, heap, mu, tcall,
                       tlim, tlimits, tdone, granted>>
        /\ UNCHANGED seqVars
        /\ UNCHANGED tbFrame

\* rate.NewLimiter and tb.limiters.Store(userID, limiter) of SetUserLimits
\* and UpdateUserLimits, tb.limiters.Delete(userID) of DeleteUserLimits
limitersMapStep(t) ==
    LET u == tcall[t].user
        lim == IF tcall[t].op = "SetUserLimits"
               THEN NewLimiter(tcall[t].Rate, tcall[t].Burst, now)
               ELSE NewLimiter(tlimits[t].Rate, tlimits[t].Burst, now)
        st == IF tcall[t].op = "DeleteUserLimits"
              THEN [limiters |-> [limiters EXCEPT ![u] = NoRef], heap |-> heap]
              ELSE StoreLimiter(limiters, heap, tlim, u, lim)
    IN  /\ tpc[t] = "limitersMap"
        /\ limiters' = st.limiters
        /\ heap' = Collect(st.heap, st.limiters, tlim)
        /\ tpc' = [tpc EXCEPT ![t] = "unlock"]
        /\ UNCHANGED <<defaultRate, defaultBurst, userLimits, mu, tcall, tlim,
                       tlimits, tdone, granted>>
        /\ UNCHANGED seqVars
        /\ UNCHANGED tbFrame

\* a return that leaves tb.mu locked
muUnlockKeepsMutex(t) ==
    /\ tpc[t] = "unlock"
    /\ Return(t)
    /\ UNCHANGED <<defaultRate, defaultBurst, userLimits, limiters, heap, mu,
                   tlim, granted>>
    /\ UNCHANGED seqVars
    /\ UNCHANGED tbFrame

\* the deferred tb.mu.Unlock()
muUnlock(t) ==
    /\ tpc[t] = "unlock"
    /\ mu' = 0
    /\ Return(t)
    /\ UNCHANGED <<defaultRate, defaultBurst, userLimits, limiters, heap, tlim,
                   granted>>
    /\ UNCHANGED seqVars
    /\ UNCHANGED tbFrame

callAllow == \E t \in Threads : goAllow(t)
doGetLimiterLoad == \E t \in Threads : getLimiterLoad(t)
doGetLimiterLimits == \E t \in Threads : getLimiterLimits(t)
doGetLimiterStore == \E t \in Threads : getLimiterStore(t)
doLimiterAllow == \E t \in Threads : limiterAllow(t)
callAdmin == \E t \in Threads : goAdmin(t)
doLock == \E t \in Threads : muLock(t)
doUpdateFn == \E t \in Threads : updateFnStep(t)
doLimitsMap == \E t \in Threads : limitsMapStep(t)
doLimitersMap == \E t \in Threads : limitersMapStep(t)
doUnlock == \E t \in Threads : muUnlock(t)

TBCNext ==
    \/ callAllow
    \/ doGetLimiterLoad
    \/ doGetLimiterLimits
    \/ doGetLimiterStore
    \/ doLimiterAllow
    \/ callAdmin
    \/ doLock
    \/ doUpdateFn
    \/ doLimitsMap
    \/ doLimitersMap
    \/ doUnlock

InitTBC == AppOff /\ LBOff /\ TBInit /\ PXOff /\ MoreOff

SpecTBC == InitTBC /\ [][TBCNext]_vars

(***************************************************************************)
(* Goroutines that call Allow, GetUserLimits and SetUserLimits under a fair  *)
(* scheduler: a goroutine that can take its next step is not passed over    *)
(* for ever.                                                                *)
(***************************************************************************)
\* a goroutine calls tb.GetUserLimits(u)
goGetUserLimits(t) ==
    \E u \in Users :
        /\ tpc[t] = "idle"
        /\ tdone[t] < MaxOps
        /\ tpc' = [tpc EXCEPT ![t] = "userLimits"]
        /\ tcall' = [tcall EXCEPT ![t] = [op |-> "GetUserLimits", user |-> u]]
        /\ granted' = [n |-> 0, pure |-> FALSE]
        /\ UNCHANGED <<defaultRate, defaultBurst, userLimits, limiters, heap, mu,
                       tlim, tlimits, tdone>>
        /\ UNCHANGED seqVars
        /\ UNCHANGED tbFrame

\* GetUserLimits: tb.userLimits.Load(userID), then the return of the entry
\* or of a copy of the default
userLimitsLoad(t) ==
    /\ tpc[t] = "userLimits"
    /\ Return(t)
    /\ UNCHANGED <<defaultRate, defaultBurst, userLimits, limiters, heap, mu,
                   tlim, granted>>
    /\ UNCHANGED seqVars
    /\ UNCHANGED tbFrame

\* a goroutine calls tb.SetUserLimits(u, rate, burst)
goSetUserLimits(t) ==
    \E c \in [op : {"SetUserLimits"}, user : Users, Rate : Rates, Burst : Bursts] :
        /\ tpc[t] = "idle"
        /\ tdone[t] < MaxOps
        /\ tpc' = [tpc EXCEPT ![t] = "lock"]
        /\ tcall' = [tcall EXCEPT ![t] = c]
        /\ granted' = [n |-> 0, pure |-> FALSE]
        /\ UNCHANGED <<defaultRate, defaultBurst, userLimits, limiters, heap, mu,
                       tlim, tlimits, tdone>>
        /\ UNCHANGED seqVars
        /\ UNCHANGED tbFrame

callGetUserLimits == \E t \in Threads : goGetUserLimits(t)
callSetUserLimits == \E t \in Threads : goSetUserLimits(t)
doUserLimitsLoad == \E t \in Threads : userLimitsLoad(t)

TBLNext ==
    \/ callAllow
    \/ doGetLimiterLoad
    \/ doGetLimiterLimits
    \/ doGetLimiterStore
    \/ doLimiterAllow
    \/ callSetUserLimits
    \/ doLock
    \/ doLimitsMap
    \/ doLimitersMap
    \/ doUnlock
    \/ callGetUserLimits
    \/ doUserLimitsLoad

\* the next step of goroutine t inside the call it has made
goStep(t) ==
    \/ getLimiterLoad(t)
    \/ getLimiterLimits(t)
    \/ getLimiterStore(t)
    \/ limiterAllow(t)
    \/ muLock(t)
    \/ limitsMapStep(t)
    \/ limitersMapStep(t)
    \/ muUnlock(t)
    \/ userLimitsLoad(t)

InitTBL == AppOff /\ LBOff /\ TBInit /\ PXOff /\ MoreOff

SpecTBL ==
    /\ InitTBL
    /\ [][TBLNext]_vars
    /\ \A t \in Threads : WF_vars(goStep(t))

(***************************************************************************)
(* TokenBucket: properties of the calls of one goroutine.                  *)
(***************************************************************************)
\* C11: a fresh bucket of a client with effective limits (r, b) admits the
\* first b immediate Allow calls and rejects every further immediate one; after
\* b + 1 immediate calls, an Allow made 1/r seconds or more after the bucket
\* was made is admitted.
C11_FreshBucketAdmitsBurstThenRefills ==
    [][\A u \in Users :
          (tbLast'.op = "Allow" /\ tbLast'.user = u) =>
              LET b == GetUserLimits(userLimits, u).Burst
                  r == GetUserLimits(userLimits, u).Rate
              IN  /\ calls'[u].op = "Allow" =>
                         (tbLast'.result <=> calls'[u].n <= b)
                  /\ ( /\ calls'[u].op = "AllowLate"
                       /\ calls'[u].n = b + 1
                       /\ (now - calls'[u].born) * r >= TicksPerSecond )
                     => tbLast'.result]_vars

\* a client with an override has used its burst, was rejected, and is admitted
\* again after the refill time
C11_Witness ==
    \E u \in Users :
        /\ tbLast.op = "Allow" /\ tbLast.user = u /\ tbLast.result
        /\ userLimits[u] # NoLimits
        /\ calls[u].op = "AllowLate"
        /\ calls[u].n = userLimits[u].Burst + 1
        /\ (now - calls[u].born) * userLimits[u].Rate >= TicksPerSecond

\* C13: GetUserLimits of a client whose override was never set, or was set
\* and then removed by DeleteUserLimits, returns the default rate and burst.
C13_NoOverrideReadsDefault ==
    tbLast.op = "GetUserLimits" =>
        (ref[tbLast.user].override \in {"never", "deleted"} =>
            tbLast.result = [Rate |-> defaultRate, Burst |-> defaultBurst])

\* GetUserLimits after an override was set and deleted
C13_Witness ==
    /\ tbLast.op = "GetUserLimits"
    /\ ref[tbLast.user].override = "deleted"

\* what a client can observe of its own state: its limits, its tokens, and
\* whether an Allow would be admitted now
Observed(ul, lm, hp, u, t) ==
    [limits |-> GetUserLimits(ul, u),
     tokens |-> TokensOf(ul, lm, hp, u, t),
     allow |-> TokensOf(ul, lm, hp, u, t) >= Token]

\* C14: after a history of Allow calls into which pairs SetUserLimits(u, ...),
\* DeleteUserLimits(u) were inserted, the client observes the same limits,
\* tokens and Allow result as in the run without the pairs.
C14_DeleteIndistinguishableFromNeverSet ==
    \A u \in Users :
        (ref[u].ok /\ ~ref[u].pending) =>
            Observed(userLimits, limiters, heap, u, now)
                = [limits |-> [Rate |-> defaultRate, Burst |-> defaultBurst],
                   tokens |-> advance(ref[u].lim, now),
                   allow |-> advance(ref[u].lim, now) >= Token]

\* C15: DeleteUserLimits of a client without an override changes neither the
\* client's limits nor its tokens.
C15_DeleteWithoutOverrideIsNoOp ==
    [][\A u \in Users :
          ( /\ tbLast'.op = "DeleteUserLimits" /\ tbLast'.user = u
            /\ userLimits[u] = NoLimits )
          => Observed(userLimits', limiters', heap', u, now')
                 = Observed(userLimits, limiters, heap, u, now)]_vars

\* C16: UpdateUserLimits(u, f) leaves, as the limits a following
\* GetUserLimits(u) returns, the fields f sets at the values f gives them and
\* every other field at its value before the call (override or default).
C16_UpdateKeepsUntouchedFields ==
    [][\A u \in Users :
          (tbLast'.op = "UpdateUserLimits" /\ tbLast'.user = u) =>
              LET f == tbLast'.result
                  before == IF userLimits[u] # NoLimits THEN userLimits[u]
                            ELSE [Rate |-> defaultRate, Burst |-> defaultBurst]
                  after == GetUserLimits(userLimits', u)
              IN  /\ after.Rate = IF f.Rate # 0 THEN f.Rate ELSE before.Rate
                  /\ after.Burst = IF f.Burst # 0 THEN f.Burst ELSE before.Burst
                  /\ userLimits'[u] = after]_vars

\* an update of the rate alone has kept an override's burst that is not the
\* default burst
C16_Witness ==
    \E u \in Users :
        /\ tbLast.op = "UpdateUserLimits" /\ tbLast.user = u
        /\ tbLast.result.Rate # 0 /\ tbLast.result.Burst = 0
        /\ userLimits[u].Rate = tbLast.result.Rate
        /\ userLimits[u].Burst # defaultBurst

\* C17: after SetUserLimits or UpdateUserLimits left a client the limits
\* (r', b'), its first b' immediate Allow calls are admitted and call b' + 1
\* is rejected, whatever it had consumed before.
C17_LimitChangeRestartsAtFullBurst ==
    [][\A u \in Users :
          ( /\ tbLast'.op = "Allow" /\ tbLast'.user = u
            /\ calls'[u].origin \in {"SetUserLimits", "UpdateUserLimits"}
            /\ calls'[u].op = "Allow"
            /\ calls'[u].n <= userLimits'[u].Burst + 1 )
          => (tbLast'.result <=> calls'[u].n <= userLimits'[u].Burst)]_vars

\* a client that had consumed tokens got new limits and then made b' + 1
\* immediate calls, of which the last was rejected
C17_Witness ==
    \E u \in Users :
        /\ tbLast.op = "Allow" /\ tbLast.user = u /\ ~tbLast.result
        /\ calls[u].origin \in {"SetUserLimits", "UpdateUserLimits"}
        /\ calls[u].prior
        /\ calls[u].op = "Allow"
        /\ calls[u].n = userLimits[u].Burst + 1

C20_WaitReturnsNormally ==
    tbLast.op = "Wait" =>
        /\ ~tbLast.panic
        /\ TokensOf(userLimits, limiters, heap, tbLast.user, now)
               <= (GetUserLimits(userLimits, tbLast.user).Burst - 1) * Token

(***************************************************************************)
(* TokenBucket: properties of concurrent calls.                            *)
(***************************************************************************)
\* C12: of the concurrent Allow calls made for a client while no time passes
\* and no limits are changed, at most as many as its burst return true.
C12_ConcurrentAllowWithinBurst ==
    granted.pure => granted.n <= defaultBurst

\* C18: while an UpdateUserLimits call is between its read of the limits and
\* its store, no step of another goroutine changes the client's limits, and
\* what it stores is its mutator applied to the limits current at the store.
C18_UpdateAtomicAmongAdminWrites ==
    [][\A t \in Threads :
          (tpc[t] = "limitsMap" /\ tcall[t].op = "UpdateUserLimits") =>
              LET u == tcall[t].user
              IN  /\ tpc'[t] = "limitsMap" => userLimits'[u] = userLimits[u]
                  /\ tpc'[t] = "limitersMap" =>
                         userLimits'[u] = updateFn(tcall[t].f,
                                                   GetUserLimits(userLimits, u))]_vars

\* an UpdateUserLimits has read the limits and not yet stored them while
\* another administrative call for the same client waits for the mutex
C18_Witness ==
    \E t \in Threads, o \in Threads :
        /\ t # o
        /\ tpc[t] = "limitsMap" /\ tcall[t].op = "UpdateUserLimits"
        /\ tpc[o] = "lock"
        /\ tcall[o].user = tcall[t].user
        /\ mu = t

\* C21: under a fair scheduler every call that one of several goroutines has
\* made on the TokenBucket (Allow, GetUserLimits or SetUserLimits, in any
\* interleaving, for the same client) returns:
\* no goroutine waits for ever for tb.mu and none stops inside its call.
C21_EveryConcurrentCallReturns ==
    \A t \in Threads : (tpc[t] # "idle") ~> (tpc[t] = "idle")

\* C21 witness: a goroutine is inside Allow or GetUserLimits for a client
\* while another one, inside SetUserLimits for the same client, holds tb.mu.
C21_Witness ==
    \E t \in Threads, o \in Threads :
        /\ t # o
        /\ tpc[t] # "idle" /\ tpc[o] # "idle"
        /\ tcall[t].op \in {"Allow", "GetUserLimits"}
        /\ tcall[o].op = "SetUserLimits"
        /\ tcall[o].user = tcall[t].user
        /\ mu = o

(***************************************************************************)
(* The administrative API: properties.                                      *)
(***************************************************************************)
\* the handler answered with an error status
IsRejection(r) == r.result.status >= 400

\* C22: a create request with a well-formed body is rejected exactly when the
\* client already has an override; an update request with a well-formed body
\* and a delete request are rejected exactly when the client has none; a
\* rejected request leaves the client's limits and limiter unchanged.
C22_AdminWritesGatedOnOverride ==
    [][LET r == tbLast'
           had == userLimits[r.user] # NoLimits
           wellFormed == r.result.body.Rate > 0 /\ r.result.body.Burst > 0
       IN  /\ (r.op = "createRateLimit" /\ wellFormed)
                  => (IsRejection(r) <=> had)
           /\ (r.op = "updateRateLimit" /\ wellFormed)
                  => (IsRejection(r) <=> ~had)
           /\ r.op = "deleteRateLimit"
                  => (IsRejection(r) <=> ~had)
           /\ (r.op \in {"createRateLimit", "updateRateLimit", "deleteRateLimit"}
                  /\ IsRejection(r))
                  => (userLimits' = userLimits /\ limiters' = limiters)
      ]_vars

Started == served' # served

\* a handler of a proxied request has just written its response
Answered ==
    \/ Started /\ resp'.outcome # "forward"
    \/ \E i \in DOMAIN rq : rq[i] # NoRequest /\ rq'[i] = NoRequest

\* C24: the bucket a request is admitted from is the one of its client
\* address, whatever its source port, so two requests of one address draw on
\* one bucket; and that bucket has the limits in effect for the address, the
\* override stored for it through the API when there is one.
C24_AdmissionKeyedByClientAddress ==
    [][Started =>
          LET id == resp'.conn.host
              lim == heap'[limiters'[resp'.key]]
              limits == GetUserLimits(userLimits, id)
          IN  /\ resp'.key = id
              /\ lim.limit = limits.Rate
              /\ lim.burst = limits.Burst
      ]_vars

\* C25: a proxied request is answered 429 exactly when Allow refuses it, and
\* then the strategy has not been invoked and its state is as before;
\* otherwise 503 exactly when Invoke returns no backend; otherwise 502
\* exactly when the one forwarding attempt fails; otherwise the response of
\* the backend is relayed; the three statuses differ from each other.
C25_OneOutcomeInOrder ==
    [][/\ Answered =>
             LET r == resp'
             IN  /\ r.outcome \in {"TooManyRequests", "ServiceUnavailable",
                                   "BadGateway", "Relayed"}
                 /\ r.outcome = "TooManyRequests" <=> ~r.allowed
                 /\ r.outcome = "ServiceUnavailable"
                        <=> (r.allowed /\ r.selected = Nil)
                 /\ r.outcome = "BadGateway"
                        <=> (r.allowed /\ r.selected # Nil /\ r.err)
                 /\ r.outcome = "Relayed"
                        <=> (r.allowed /\ r.selected # Nil /\ ~r.err)
                 /\ r.outcome = "TooManyRequests"
                        => (backends' = backends /\ current' = current)
       /\ Cardinality({Status("TooManyRequests"), Status("ServiceUnavailable"),
                       Status("BadGateway")}) = 3
      ]_vars

\* C25 as amended: as C25, with a fourth failure between the second and the
\* third: 500 exactly when a backend was selected and the outbound request
\* could not be built, in which case nothing is forwarded; the four statuses
\* differ from each other.
C25_OneOutcomeInOrderAmended ==
    [][/\ Answered =>
             LET r == resp'
             IN  /\ r.outcome \in {"TooManyRequests", "ServiceUnavailable",
                                   "InternalServerError", "BadGateway", "Relayed"}
                 /\ r.outcome = "TooManyRequests" <=> ~r.allowed
                 /\ r.outcome = "ServiceUnavailable"
                        <=> (r.allowed /\ r.selected = Nil)
                 /\ r.outcome = "InternalServerError"
                        <=> (r.allowed /\ r.selected # Nil /\ ~r.built)
                 /\ r.outcome = "BadGateway"
                        <=> (r.allowed /\ r.selected # Nil /\ r.built /\ r.err)
                 /\ r.outcome = "Relayed"
                        <=> (r.allowed /\ r.selected # Nil /\ r.built /\ ~r.err)
                 /\ r.outcome = "TooManyRequests"
                        => (backends' = backends /\ current' = current)
                 /\ r.outcome = "InternalServerError"
                        => (rq' = rq /\ bstats' = bstats)
       /\ Cardinality({Status("TooManyRequests"), Status("ServiceUnavailable"),
                       Status("InternalServerError"), Status("BadGateway")}) = 4
      ]_vars

\* C25 witness: with a backend registered, a request has just been refused
\* by the rate limiter after an earlier one of the same connection was let
\* through and forwarded.
C25_Witness ==
    /\ resp.handler = "handleRequest"
    /\ resp.outcome = "TooManyRequests"
    /\ DOMAIN backends # {}
    /\ current > 0
    /\ \E i \in DOMAIN rq : rq[i] # NoRequest /\ rq[i].conn = resp.conn

\* C28: when no request is being forwarded, every backend's own count of
\* active connections and every count of the registry is 0: each slot taken
\* for a request, by the strategy or by Backend.Handle, has been released.
C28_SlotsReleasedWhenIdle ==
    (\A i \in DOMAIN rq : rq[i] = NoRequest) =>
        /\ \A id \in DOMAIN bstats : bstats[id] = 0
        /\ \A id \in DOMAIN backends : backends[id].ActiveConnections = 0

\* C31: once every concurrent call on the TokenBucket has returned, the
\* limiter held for a client, if there is one, has the rate and burst that
\* GetUserLimits returns for that client.
C31_BucketBuiltFromCurrentLimits ==
    (tpc # <<>> /\ \A t \in Threads : tpc[t] = "idle") =>
        \A u \in Users :
            limiters[u] # NoRef =>
                /\ heap[limiters[u]].limit = GetUserLimits(userLimits, u).Rate
                /\ heap[limiters[u]].burst = GetUserLimits(userLimits, u).Burst

(***************************************************************************)
(* GetUserLimits read by a handler while UpdateUserLimits runs: the reads   *)
(* and writes of the two fields of a UserLimits are steps of their own.     *)
(***************************************************************************)
\* the complete limits a reader of u may be given at this moment: those in
\* effect, or, while an update of u is between its GetUserLimits and its
\* Store, the limits from before it and the limits after it
Consistent(u) ==
    LET W == {w \in Threads : /\ tcall[w].op = "UpdateUserLimits"
                              /\ tcall[w].user = u
                              /\ tpc[w] \in {"fnRate", "fnBurst", "limitsMap"}}
    IN  IF W = {} THEN {GetUserLimits(userLimits, u)}
        ELSE UNION {{tcall[w].before, tcall[w].f} : w \in W}

\* a handler calls p.ratelimit.GetUserLimits(u) to read both fields
goReadLimits(t) ==
    \E u \in Users :
        /\ tpc[t] = "idle"
        /\ tdone[t] < MaxOps
        /\ tpc' = [tpc EXCEPT ![t] = "readLoad"]
        /\ tcall' = [tcall EXCEPT ![t] = [op |-> "getRateLimit", user |-> u,
                                          shared |-> FALSE, seen |-> {}]]
        /\ UNCHANGED <<defaultRate, defaultBurst, userLimits, limiters, heap, mu,
                       tlim, tlimits, tdone, granted>>
        /\ UNCHANGED seqVars
        /\ UNCHANGED tbFrame

\* GetUserLimits: tb.userLimits.Load(userID) returns the stored *UserLimits,
\* and without one a new UserLimits with the defaults is returned
readLoad(t) ==
    LET u == tcall[t].user
        stored == userLimits[u] # NoLimits
    IN  /\ tpc[t] = "readLoad"
        /\ tcall' = [tcall EXCEPT ![t].shared = stored,
                                  ![t].seen = Consistent(u)]
        /\ tlimits' = [tlimits EXCEPT ![t] =
                           IF stored THEN NoLimits
                           ELSE [Rate |-> defaultRate, Burst |-> defaultBurst]]
        /\ tpc' = [tpc EXCEPT ![t] = "readRate"]
        /\ UNCHANGED <<defaultRate, defaultBurst, userLimits, limiters, heap, mu,
                       tlim, tdone, granted>>
        /\ UNCHANGED seqVars
        /\ UNCHANGED tbFrame

\* Rate: limits.Rate
readRate(t) ==
    LET u == tcall[t].user
    IN  /\ tpc[t] = "readRate"
        /\ tlimits' = [tlimits EXCEPT ![t].Rate =
                           IF tcall[t].shared THEN userLimits[u].Rate ELSE @]
        /\ tcall' = [tcall EXCEPT ![t].seen = @ \cup Consistent(u)]
        /\ tpc' = [tpc EXCEPT ![t] = "readBurst"]
        /\ UNCHANGED <<defaultRate, defaultBurst, userLimits, limiters, heap, mu,
                       tlim, tdone, granted>>
        /\ UNCHANGED seqVars
        /\ UNCHANGED tbFrame

\* Burst: limits.Burst, and the pair is what the handler answers with
readBurst(t) ==
    LET u == tcall[t].user
        burst == IF tcall[t].shared THEN userLimits[u].Burst ELSE tlimits[t].Burst
    IN  /\ tpc[t] = "readBurst"
        /\ tbLast' = [op |-> "getRateLimit", user |-> u,
                      result |-> [Rate |-> tlimits[t].Rate, Burst |-> burst],
                      seen |-> tcall[t].seen \cup Consistent(u),
                      panic |-> FALSE]
        /\ Return(t)
        /\ UNCHANGED <<defaultRate, defaultBurst, userLimits, limiters, heap, mu,
                       tlim, granted, now, calls, ref>>
        /\ UNCHANGED tbFrame

\* updateRateLimit calls tb.UpdateUserLimits(u, f) with the f that assigns
\* ul.Rate and then ul.Burst
goUpdateBoth(t) ==
    \E u \in Users, f \in [Rate : Rates, Burst : Bursts] :
        /\ tpc[t] = "idle"
        /\ tdone[t] < MaxOps
        /\ tpc' = [tpc EXCEPT ![t] = "lock"]
        /\ tcall' = [tcall EXCEPT ![t] = [op |-> "UpdateUserLimits", user |-> u,
                                          f |-> f, shared |-> FALSE,
                                          before |-> NoLimits]]
        /\ UNCHANGED <<defaultRate, defaultBurst, userLimits, limiters, heap, mu,
                       tlim, tlimits, tdone, granted>>
        /\ UNCHANGED seqVars
        /\ UNCHANGED tbFrame

\* UpdateUserLimits: limits := tb.GetUserLimits(userID), the stored
\* UserLimits itself when there is one
fnGetUserLimits(t) ==
    LET u == tcall[t].user
    IN  /\ tpc[t] = "updateFn"
        /\ tcall' = [tcall EXCEPT ![t].shared = userLimits[u] # NoLimits,
                                  ![t].before = GetUserLimits(userLimits, u)]
        /\ tlimits' = [tlimits EXCEPT ![t] = GetUserLimits(userLimits, u)]
        /\ tpc' = [tpc EXCEPT ![t] = "fnRate"]
        /\ UNCHANGED <<defaultRate, defaultBurst, userLimits, limiters, heap, mu,
                       tlim, tdone, granted>>
        /\ UNCHANGED seqVars
        /\ UNCHANGED tbFrame

\* updateFn: ul.Rate = limits.Rate
fnRate(t) ==
    LET u == tcall[t].user
    IN  /\ tpc[t] = "fnRate"
        /\ tlimits' = [tlimits EXCEPT ![t].Rate = tcall[t].f.Rate]
        /\ userLimits' = IF tcall[t].shared
                         THEN [userLimits EXCEPT ![u].Rate = tcall[t].f.Rate]
                         ELSE userLimits
        /\ tpc' = [tpc EXCEPT ![t] = "fnBurst"]
        /\ UNCHANGED <<defaultRate, defaultBurst, limiters, heap, mu, tcall,
                       tlim, tdone, granted>>
        /\ UNCHANGED seqVars
        /\ UNCHANGED tbFrame

\* updateFn: ul.Burst = limits.Burst
fnBurst(t) ==
    LET u == tcall[t].user
    IN  /\ tpc[t] = "fnBurst"
        /\ tlimits' = [tlimits EXCEPT ![t].Burst = tcall[t].f.Burst]
        /\ userLimits' = IF tcall[t].shared
                         THEN [userLimits EXCEPT ![u].Burst = tcall[t].f.Burst]
                         ELSE userLimits
        /\ tpc' = [tpc EXCEPT ![t] = "limitsMap"]
        /\ UNCHANGED <<defaultRate, defaultBurst, limiters, heap, mu, tcall,
                       tlim, tdone, granted>>
        /\ UNCHANGED seqVars
        /\ UNCHANGED tbFrame

callReadLimits == \E t \in Threads : goReadLimits(t)
doReadLoad == \E t \in Threads : readLoad(t)
doReadRate == \E t \in Threads : readRate(t)
doReadBurst == \E t \in Threads : readBurst(t)
callUpdateBoth == \E t \in Threads : goUpdateBoth(t)
doFnGetUserLimits == \E t \in Threads : fnGetUserLimits(t)
doFnRate == \E t \in Threads : fnRate(t)
doFnBurst == \E t \in Threads : fnBurst(t)

TBUNext ==
    \/ callReadLimits
    \/ doReadLoad
    \/ doReadRate
    \/ doReadBurst
    \/ callUpdateBoth
    \/ doLock
    \/ doFnGetUserLimits
    \/ doFnRate
    \/ doFnBurst
    \/ doLimitsMap
    \/ doLimitersMap
    \/ doUnlock

\* a TokenBucket on which SetUserLimits has or has not been called for the
\* user before the goroutines start
InitTBU ==
    /\ AppOff /\ LBOff /\ PXOff /\ MoreOff
    /\ defaultRate \in Rates
    /\ defaultBurst \in Bursts
    /\ \E u \in Users, pre \in {NoLimits} \cup [Rate : Rates, Burst : Bursts] :
          LET ul == [x \in Users |-> NoLimits]
              lm == [x \in Users |-> NoRef]
              hp == [i \in Slots |-> NoLimiter]
              s == IF pre = NoLimits
                   THEN [userLimits |-> ul, limiters |-> lm, heap |-> hp]
                   ELSE SetUserLimits(ul, lm, hp, [t \in Threads |-> NoRef], u,
                                      pre.Rate, pre.Burst, 0)
          IN  /\ userLimits = s.userLimits
              /\ limiters = s.limiters
              /\ heap = s.heap
    /\ now = 0
    /\ mu = 0
    /\ tbLast = Out("NewTokenBucket", "", 0)
    /\ calls = [u \in Users |-> Dropped]
    /\ ref = [u \in Users |->
                 RefDead([lim |-> NewLimiter(defaultRate, defaultBurst, 0),
                          ok |-> TRUE, pending |-> FALSE, override |-> "never"])]
    /\ tpc = [t \in Threads |-> "idle"]
    /\ tcall = [t \in Threads |-> [op |-> "none"]]
    /\ tlim = [t \in Threads |-> NoRef]
    /\ tlimits = [t \in Threads |-> NoLimits]
    /\ tdone = [t \in Threads |-> 0]
    /\ granted = [n |-> 0, pure |-> FALSE]

SpecTBU == InitTBU /\ [][TBUNext]_vars

\* C40: a GetUserLimits(u) that runs while UpdateUserLimits(u, f) does
\* returns the limits from before the update or the limits after it: the
\* pair its caller reads is one of the complete limits that were in effect,
\* or about to be, at some moment of the call.
C40_ReadSeesWholeUpdate ==
    tbLast.op = "getRateLimit" => tbLast.result \in tbLast.seen

-----------------------------------------------------------------------------
\* BaseBackend: the request counters and the stats tick

bkFrame == <<appVars, lbVars, tbVars, pxVars, lbcVars, subVars, runVars,
             wpVars>>

\* the state of NewBackend: counters at zero, the updateStats goroutine
\* waiting for its first tick
NewBackend ==
    /\ requestCount = 0
    /\ successCount = 0
    /\ SuccessRate = [num |-> 0, den |-> 1]
    /\ statsPc = "wait"
    /\ totalRequests = 0
    /\ hpc = [t \in Threads |-> [pc |-> "idle", success |-> FALSE]]

\* Handle up to the call of updateRequestStats: the request has been sent
\* and has succeeded or failed
Handle(t, success) ==
    /\ hpc[t].pc = "idle"
    /\ requestCount < MaxCounter
    /\ successCount < MaxCounter
    /\ hpc' = [hpc EXCEPT ![t] = [pc |-> "requestCount", success |-> success]]
    /\ UNCHANGED <<requestCount, successCount, SuccessRate, statsPc,
                   totalRequests, bkFrame>>

\* updateRequestStats: b.requestCount.Add(1)
requestCountAdd(t) ==
    /\ hpc[t].pc = "requestCount"
    /\ requestCount' = requestCount + 1
    /\ hpc' = [hpc EXCEPT ![t].pc =
                  IF hpc[t].success THEN "successCount" ELSE "idle"]
    /\ UNCHANGED <<successCount, SuccessRate, statsPc, totalRequests,
                   bkFrame>>

\* updateRequestStats: b.successCount.Add(1)
successCountAdd(t) ==
    /\ hpc[t].pc = "successCount"
    /\ successCount' = successCount + 1
    /\ hpc' = [hpc EXCEPT ![t].pc = "idle"]
    /\ UNCHANGED <<requestCount, SuccessRate, statsPc, totalRequests,
                   bkFrame>>

\* updateStats, a tick: b.requestCount.Load() for the requests per second,
\* then b.requestCount.Store(0)
tickReset ==
    /\ statsPc = "wait"
    /\ requestCount' = 0
    /\ statsPc' = "load"
    /\ UNCHANGED <<successCount, SuccessRate, totalRequests, hpc, bkFrame>>

\* updateStats: totalRequests := b.requestCount.Load()
tickLoad ==
    /\ statsPc = "load"
    /\ totalRequests' = requestCount
    /\ statsPc' = "rate"
    /\ UNCHANGED <<requestCount, successCount, SuccessRate, hpc, bkFrame>>

\* updateStats: if totalRequests > 0, the success rate becomes
\* b.successCount.Load() / totalRequests; the tick ends
tickRate ==
    /\ statsPc = "rate"
    /\ SuccessRate' = IF totalRequests > 0
                         THEN [num |-> successCount, den |-> totalRequests]
                         ELSE SuccessRate
    /\ statsPc' = "wait"
    /\ UNCHANGED <<requestCount, successCount, totalRequests, hpc, bkFrame>>

callHandle == \E t \in Threads, success \in BOOLEAN : Handle(t, success)

doRequestCountAdd == \E t \in Threads : requestCountAdd(t)

doSuccessCountAdd == \E t \in Threads : successCountAdd(t)

StatsNext ==
    \/ callHandle
    \/ doRequestCountAdd
    \/ doSuccessCountAdd
    \/ tickReset
    \/ tickLoad
    \/ tickRate

InitStats ==
    AppOff /\ LBOff /\ TBOff /\ PXOff /\ LBCOff /\ NewBackend /\ SubOff
    /\ RunOff /\ WPOff

SpecStats == InitStats /\ [][StatsNext]_vars

\* C35: between two ticks the success rate a backend reports is a number
\* of successful requests over a number of requests that contains them: it
\* lies between 0 and 1.
C35_SuccessRateIsARate ==
    statsPc = "wait" => SuccessRate.num <= SuccessRate.den

-----------------------------------------------------------------------------
\* ConfigManager: Subscribe and loadConfig over the list of subscribers

\* subscribers one manager gets
MaxSubscribers == 2

subFrame == <<lbVars, tbVars, pxVars, lbcVars, bkVars, runVars, wpVars>>

\* a channel without a buffer, in place of the one Subscribe makes
MakeChanUnbuffered(c) ==
    [cap |-> 0, buf |-> <<>>, blocked |-> FALSE, at |-> c, first |-> NoConfig]

\* ch := make(chan *Config, 1); with the channel the model keeps the
\* configuration that was current when it was made and the first value its
\* reader received
MakeChan(c) ==
    [cap |-> 1, buf |-> <<>>, blocked |-> FALSE, at |-> c, first |-> NoConfig]

\* ch <- c: the value enters the buffer, or the sender blocks (no receiver
\* waits on a channel that was not handed out yet)
Send(ch, c) ==
    IF Len(ch.buf) < ch.cap
        THEN [ch EXCEPT !.buf = Append(@, c)]
        ELSE [ch EXCEPT !.blocked = TRUE]

\* select { case ch <- c: default: }
TrySend(ch, c) ==
    IF Len(ch.buf) < ch.cap THEN [ch EXCEPT !.buf = Append(@, c)] ELSE ch

\* a goroutine of the manager is blocked in a send while it holds m.mu
ManagerBlocked == \E i \in DOMAIN subscribers : subscribers[i].blocked

\* NewConfigManager returned: the initial loadConfig succeeded
NewConfigManager ==
    /\ config \in ValidConfigs
    /\ lastError = FALSE
    /\ subscribers = <<>>

\* the parts of App this specification leaves at rest
AppAtRest ==
    /\ subCh = <<>>
    /\ pc = "off"
    /\ cfgIn = NoConfig
    /\ proxy = NoProxy
    /\ newP = NoProxy
    /\ oldListening = FALSE
    /\ lastReconf = "none"
    /\ srv = [p \in ProxyIds |-> "none"]
    /\ pcfg = [p \in ProxyIds |-> NoConfig]
    /\ reg = [p \in ProxyIds |-> {}]
    /\ inflight = [p \in ProxyIds |-> 0]
    /\ aborted = [p \in ProxyIds |-> 0]
    /\ drainClock = 0

appRest == <<subCh, pc, cfgIn, proxy, newP, oldListening, lastReconf, srv,
             pcfg, reg, inflight, aborted, drainClock>>

\* ConfigManager.Subscribe
Subscribe ==
    /\ ~ManagerBlocked
    /\ Len(subscribers) < MaxSubscribers
    /\ subscribers' =
           Append(subscribers,
                  IF config # NoConfig
                      THEN Send(MakeChan(config), config)
                      ELSE MakeChan(config))
    /\ UNCHANGED <<config, lastError, appRest, subFrame>>

\* ConfigManager.loadConfig, LoadFromFile succeeded
subLoadConfigOk ==
    \E c \in FileContents :
        /\ ~ManagerBlocked
        /\ validate(c)
        /\ config' = c
        /\ lastError' = FALSE
        /\ subscribers' =
               [i \in DOMAIN subscribers |-> TrySend(subscribers[i], c)]
        /\ UNCHANGED <<appRest, subFrame>>

\* ConfigManager.loadConfig, LoadFromFile failed
subLoadConfigFail ==
    \E c \in FileContents :
        /\ ~ManagerBlocked
        /\ ~validate(c)
        /\ lastError' = TRUE
        /\ UNCHANGED <<config, subscribers, appRest, subFrame>>

\* a subscriber receives from its channel
receive(i) ==
    /\ subscribers[i].buf # <<>>
    /\ subscribers' =
           [subscribers EXCEPT
               ![i].buf = Tail(@),
               ![i].first = IF @ = NoConfig
                               THEN Head(subscribers[i].buf) ELSE @]
    /\ UNCHANGED <<config, lastError, appRest, subFrame>>

doReceive == \E i \in DOMAIN subscribers : receive(i)

SubNext ==
    \/ Subscribe
    \/ subLoadConfigOk
    \/ subLoadConfigFail
    \/ doReceive

InitSub ==
    NewConfigManager /\ AppAtRest /\ LBOff /\ TBOff /\ PXOff /\ LBCOff
    /\ BKOff /\ RunOff /\ WPOff

SpecSub == InitSub /\ [][SubNext]_vars

\* what the reader of channel ch gets, or has got, first
FirstValue(ch) ==
    IF ch.first # NoConfig THEN ch.first
    ELSE IF ch.buf # <<>> THEN Head(ch.buf) ELSE NoConfig

\* C36: no send of the manager blocks, in Subscribe or in a reload, whether
\* the subscribers read or not; and the first value on the channel of a
\* subscriber who subscribed when a configuration was loaded is that
\* configuration, waiting in the channel from the return of Subscribe on.
C36_SubscriberGetsCurrentConfigFirst ==
    \A i \in DOMAIN subscribers :
        /\ ~subscribers[i].blocked
        /\ subscribers[i].at # NoConfig =>
               FirstValue(subscribers[i]) = subscribers[i].at

\* a subscriber who has not read while the configuration was reloaded to a
\* different one, and another who has received its first value
C36_Witness ==
    /\ Len(subscribers) = 2
    /\ subscribers[1].first = NoConfig
    /\ subscribers[1].at # config
    /\ subscribers[1].buf = <<subscribers[1].at>>
    /\ subscribers[2].first = subscribers[2].at
    /\ subscribers[2].first # NoConfig

-----------------------------------------------------------------------------
\* WorkerPool

\* tasks submitted to one pool, and the most workers it is built with
MaxTasks == 2
MaxWorkers == 2

wpFrame == <<appVars, lbVars, tbVars, pxVars, lbcVars, bkVars, subVars,
             runVars>>

\* NewWorkerPool(workerCount) with workerCount >= 1: an unbuffered task
\* queue, every worker waiting to receive, nothing submitted
NewWorkerPool ==
    /\ queueClosed = FALSE
    /\ wg = 0
    /\ taskPc = [k \in 1..MaxTasks |-> "none"]
    /\ \E workerCount \in 1..MaxWorkers :
           workerTask = [w \in 1..workerCount |-> 0]
    /\ execs = [k \in 1..MaxTasks |-> 0]
    /\ waitPc = "idle"

\* a send on the closed queue has panicked: the process is gone
Crashed == \E k \in DOMAIN taskPc : taskPc[k] = "panic"

\* Submit(task): wp.wg.Add(1) and the goroutine that will send the task
Submit(k) ==
    /\ ~Crashed
    /\ waitPc = "idle"
    /\ taskPc[k] = "none"
    /\ \A j \in 1..(k - 1) : taskPc[j] # "none"
    /\ wg' = wg + 1
    /\ taskPc' = [taskPc EXCEPT ![k] = "sending"]
    /\ UNCHANGED <<queueClosed, workerTask, execs, waitPc, wpFrame>>

\* wp.taskQueue <- task meets "for task := range wp.taskQueue" of a worker
\* that is not running a task
queueSend(k, w) ==
    /\ ~Crashed
    /\ taskPc[k] = "sending"
    /\ ~queueClosed
    /\ workerTask[w] = 0
    /\ taskPc' = [taskPc EXCEPT ![k] = "sent"]
    /\ workerTask' = [workerTask EXCEPT ![w] = k]
    /\ UNCHANGED <<queueClosed, wg, execs, waitPc, wpFrame>>

\* wp.taskQueue <- task on the closed queue: panic
queueSendClosed(k) ==
    /\ ~Crashed
    /\ taskPc[k] = "sending"
    /\ queueClosed
    /\ taskPc' = [taskPc EXCEPT ![k] = "panic"]
    /\ UNCHANGED <<queueClosed, wg, workerTask, execs, waitPc, wpFrame>>

\* defer wp.wg.Done(), after the send
submitDone(k) ==
    /\ ~Crashed
    /\ taskPc[k] = "sent"
    /\ wg' = wg - 1
    /\ taskPc' = [taskPc EXCEPT ![k] = "returned"]
    /\ UNCHANGED <<queueClosed, workerTask, execs, waitPc, wpFrame>>

\* worker: task() has run to its end
workerRun(w) ==
    /\ ~Crashed
    /\ workerTask[w] # 0
    /\ execs' = [execs EXCEPT ![workerTask[w]] = @ + 1]
    /\ workerTask' = [workerTask EXCEPT ![w] = 0]
    /\ UNCHANGED <<queueClosed, wg, taskPc, waitPc, wpFrame>>

\* Wait: close(wp.taskQueue)
waitClose ==
    /\ ~Crashed
    /\ waitPc = "idle"
    /\ queueClosed' = TRUE
    /\ waitPc' = "closed"
    /\ UNCHANGED <<wg, taskPc, workerTask, execs, wpFrame>>

\* Wait: wp.wg.Wait() returns when the counter is zero
waitReturn ==
    /\ ~Crashed
    /\ waitPc = "closed"
    /\ wg = 0
    /\ waitPc' = "returned"
    /\ UNCHANGED <<queueClosed, wg, taskPc, workerTask, execs, wpFrame>>

callSubmit == \E k \in 1..MaxTasks : Submit(k)

doQueueSend == \E k \in 1..MaxTasks, w \in DOMAIN workerTask : queueSend(k, w)

doQueueSendClosed == \E k \in 1..MaxTasks : queueSendClosed(k)

doSubmitDone == \E k \in 1..MaxTasks : submitDone(k)

doWorkerRun == \E w \in DOMAIN workerTask : workerRun(w)

WPNext ==
    \/ callSubmit
    \/ doQueueSend
    \/ doQueueSendClosed
    \/ doSubmitDone
    \/ doWorkerRun
    \/ waitClose
    \/ waitReturn

InitWP ==
    AppOff /\ LBOff /\ TBOff /\ PXOff /\ LBCOff /\ BKOff /\ SubOff /\ RunOff
    /\ NewWorkerPool

SpecWP == InitWP /\ [][WPNext]_vars

\* C37: no Submit goroutine sends on the closed queue, and when Wait has
\* returned every submitted task has finished executing exactly once.
C37_WaitReturnsAfterEveryTaskRan ==
    /\ ~Crashed
    /\ waitPc = "returned" =>
           \A k \in DOMAIN taskPc : taskPc[k] # "none" => execs[k] = 1

-----------------------------------------------------------------------------
\* App.Run: the shutdown, next to the watchConfig goroutine of NewApp

runFrame == <<lbVars, tbVars, pxVars, lbcVars, bkVars, subVars, wpVars>>

\* the process runs: the caller of Run has not ended it
Alive == runPc # "exited"

\* Run does not hold a.mu
RunUnlocked == runPc \in {"waiting", "returned"}

\* Run: the signal has arrived; a.mu.Lock() succeeds between two calls of
\* reconfigure; a.proxy.Stop() begins if a.proxy is set
runShutdown ==
    /\ runPc = "waiting"
    /\ pc = "idle"
    /\ IF proxy # NoProxy
          THEN /\ StopBegin(proxy)
               /\ runPc' = "draining"
          ELSE /\ runPc' = "close"
               /\ UNCHANGED <<srv, drainClock, inflight, aborted>>
    /\ UNCHANGED <<config, lastError, subCh, pc, cfgIn, proxy, newP,
                   oldListening, lastReconf, pcfg, reg, subClosed, runFrame>>

\* one second of the shutdown context of a.proxy.Stop() passes
runDrainTick ==
    /\ runPc = "draining"
    /\ srv[proxy] = "draining"
    /\ drainClock < StopTimeout
    /\ drainClock' = drainClock + 1
    /\ UNCHANGED <<config, lastError, subCh, pc, cfgIn, proxy, newP,
                   oldListening, lastReconf, srv, pcfg, reg, inflight, aborted,
                   runVars, runFrame>>

\* a.proxy.Stop() returned nil
runShutdownDone ==
    /\ runPc = "draining"
    /\ inflight[proxy] = 0
    /\ srv' = [srv EXCEPT ![proxy] = "closed"]
    /\ drainClock' = 0
    /\ runPc' = "close"
    /\ UNCHANGED <<config, lastError, subCh, pc, cfgIn, proxy, newP,
                   oldListening, lastReconf, pcfg, reg, inflight, aborted,
                   subClosed, runFrame>>

\* a.proxy.Stop(): the context expired, p.server.Close()
runShutdownTimeout ==
    /\ runPc = "draining"
    /\ inflight[proxy] > 0
    /\ drainClock = StopTimeout
    /\ StopImmediateClose(proxy)
    /\ runPc' = "close"
    /\ UNCHANGED <<config, lastError, subCh, pc, cfgIn, proxy, newP,
                   oldListening, lastReconf, pcfg, reg, subClosed, runFrame>>

\* a.configManager.Close() closes the channel of every subscriber and the
\* watcher; Run returns and its deferred a.mu.Unlock() runs
runClose ==
    /\ runPc = "close"
    /\ subClosed' = TRUE
    /\ runPc' = "returned"
    /\ UNCHANGED <<appVars, runFrame>>

\* the caller of Run ends the process
runExit ==
    /\ runPc = "returned"
    /\ runPc' = "exited"
    /\ UNCHANGED <<appVars, subClosed, runFrame>>

\* loadConfig until Close: the watcher is closed with the subscriptions
runLoadConfigOk == Alive /\ ~subClosed /\ loadConfigOk

runLoadConfigFail == Alive /\ ~subClosed /\ loadConfigFail

\* for cfg := range configCh, and a.mu.Lock() of reconfigure: a closed
\* channel still delivers what its buffer holds
runWatchConfig == Alive /\ RunUnlocked /\ watchConfig

runReconfigureBuild == Alive /\ reconfigureBuild

runReconfigureStart == Alive /\ reconfigureStart

runListenAndServe == Alive /\ listenAndServe

runReconfigureStopOld == Alive /\ reconfigureStopOld

runReconfigureDrainTick == Alive /\ drainTick

runReconfigureShutdownDone == Alive /\ shutdownDone

runReconfigureShutdownTimeout == Alive /\ shutdownTimeout

runReconfigureCommit == Alive /\ reconfigureCommit

runAccept == Alive /\ handleAccept

runComplete == Alive /\ handleComplete

RunNext ==
    \/ runLoadConfigOk
    \/ runLoadConfigFail
    \/ runWatchConfig
    \/ runReconfigureBuild
    \/ runReconfigureStart
    \/ runListenAndServe
    \/ runReconfigureStopOld
    \/ runReconfigureDrainTick
    \/ runReconfigureShutdownDone
    \/ runReconfigureShutdownTimeout
    \/ runReconfigureCommit
    \/ runAccept
    \/ runComplete
    \/ runShutdown
    \/ runDrainTick
    \/ runShutdownDone
    \/ runShutdownTimeout
    \/ runClose
    \/ runExit

\* NewApp returned and Run waits for the signal
InitRun ==
    AppInit /\ LBOff /\ TBOff /\ PXOff /\ LBCOff /\ BKOff /\ SubOff /\ WPOff
    /\ runPc = "waiting" /\ subClosed = FALSE

SpecRun == InitRun /\ [][RunNext]_vars

\* C38: after Run has stopped the proxy, closed the configuration manager
\* and returned, no Proxy instance is started.
C38_NoStartAfterShutdown ==
    [][runPc = "returned" =>
          \A p \in ProxyIds : srv'[p] = "starting" => srv[p] = "starting"]_vars

-----------------------------------------------------------------------------
\* reconfigure over configurations with and without a rateLimiter section

\* c.RateLimiter == nil, and c.RateLimiter.TokenBucket == nil
NoTokenBucket == [present |-> FALSE, Rate |-> 0, Burst |-> 0]
NoRateLimiter ==
    [present |-> FALSE, enabled |-> FALSE, type |-> "",
     tokenBucket |-> NoTokenBucket]

RateLimiter(enabled, type, tokenBucket) ==
    [present |-> TRUE, enabled |-> enabled, type |-> type,
     tokenBucket |-> tokenBucket]

TokenBucketConfig(rate, burst) ==
    [present |-> TRUE, Rate |-> rate, Burst |-> burst]

\* the rateLimiter sections a configuration file can carry
RateLimiterSections ==
    { NoRateLimiter,
      RateLimiter(FALSE, "", NoTokenBucket),
      RateLimiter(FALSE, "TokenBucket", TokenBucketConfig(0, 0)),
      RateLimiter(TRUE, "TokenBucket", TokenBucketConfig(1, 1)),
      RateLimiter(TRUE, "TokenBucket", NoTokenBucket),
      RateLimiter(TRUE, "TokenBucket", TokenBucketConfig(0, 1)),
      RateLimiter(TRUE, "TokenBucket", TokenBucketConfig(1, 0)),
      RateLimiter(TRUE, "LeakyBucket", TokenBucketConfig(1, 1)) }

\* contents of the configuration file, with the rateLimiter section
RateLimitedFileContents ==
    { [method |-> m, backends |-> <<"b1">>, rateLimiter |-> r] :
          m \in {"RoundRobin", "Random"}, r \in RateLimiterSections }

\* Config.validate: the rate limiter checks
validateRateLimiter(c) ==
    (c.rateLimiter.present /\ c.rateLimiter.enabled) =>
        /\ c.rateLimiter.type = "TokenBucket"
        /\ c.rateLimiter.tokenBucket.present
        /\ c.rateLimiter.tokenBucket.Rate > 0
        /\ c.rateLimiter.tokenBucket.Burst > 0

\* Config.validate
validateConfig(c) == validate(c) /\ validateRateLimiter(c)

\* cfg.RateLimiter.TokenBucket.Rate dereferences a nil pointer
NilDereference(c) ==
    \/ ~c.rateLimiter.present
    \/ ~c.rateLimiter.tokenBucket.present

\* the process has panicked
Panicked == pc = "panic"

rcLoadConfigOk ==
    \E c \in RateLimitedFileContents :
        /\ ~Panicked
        /\ validateConfig(c)
        /\ LoadSuccess(c)
        /\ UNCHANGED <<pc, cfgIn, proxy, newP, oldListening, lastReconf, srv,
                       pcfg, reg, inflight, aborted, drainClock>>
        /\ UNCHANGED appFrame

rcLoadConfigFail ==
    \E c \in RateLimitedFileContents :
        /\ ~Panicked
        /\ ~validateConfig(c)
        /\ LoadFailure(c)
        /\ UNCHANGED <<pc, cfgIn, proxy, newP, oldListening, lastReconf, srv,
                       pcfg, reg, inflight, aborted, drainClock>>
        /\ UNCHANGED appFrame

\* reconfigure up to transport.NewProxy: after loadbalancer.New succeeded,
\* the arguments of ratelimit.NewTokenBucket are read through
\* cfg.RateLimiter and cfg.RateLimiter.TokenBucket
rcReconfigureBuild ==
    /\ pc = "build"
    /\ IF New(cfgIn.method).ok /\ NilDereference(cfgIn)
          THEN /\ pc' = "panic"
               /\ UNCHANGED <<config, lastError, subCh, cfgIn, proxy, newP,
                              oldListening, lastReconf, srv, pcfg, reg,
                              inflight, aborted, drainClock>>
               /\ UNCHANGED appFrame
          ELSE reconfigureBuild

rcListenAndServe == ~Panicked /\ listenAndServe

rcAccept == ~Panicked /\ handleAccept

rcComplete == ~Panicked /\ handleComplete

RCNext ==
    \/ rcLoadConfigOk
    \/ rcLoadConfigFail
    \/ watchConfig
    \/ rcReconfigureBuild
    \/ reconfigureStart
    \/ rcListenAndServe
    \/ reconfigureStopOld
    \/ drainTick
    \/ shutdownDone
    \/ shutdownTimeout
    \/ reconfigureCommit
    \/ rcAccept
    \/ rcComplete

\* NewApp returned: the initial configuration passed validate and waits in
\* the subscription channel
InitRC ==
    /\ config \in {c \in RateLimitedFileContents : validateConfig(c)}
    /\ lastError = FALSE
    /\ subCh = <<config>>
    /\ pc = "idle"
    /\ cfgIn = NoConfig
    /\ proxy = NoProxy
    /\ newP = NoProxy
    /\ oldListening = FALSE
    /\ lastReconf = "none"
    /\ srv = [p \in ProxyIds |-> "none"]
    /\ pcfg = [p \in ProxyIds |-> NoConfig]
    /\ reg = [p \in ProxyIds |-> {}]
    /\ inflight = [p \in ProxyIds |-> 0]
    /\ aborted = [p \in ProxyIds |-> 0]
    /\ drainClock = 0
    /\ LBOff /\ TBOff /\ PXOff /\ MoreOff

SpecRC == InitRC /\ [][RCNext]_vars

\* C39: reconfigure never panics on a configuration that passed validate.
C39_ReconfigureNeverPanics == ~Panicked

====
